---- MODULE Spec2Model ----
(***************************************************************************)
(* RenderBlocks: the block store (useNumberBlocks), the interaction        *)
(* handlers of App (spawn, drag, trash, subtract menu, sneeze timers,      *)
(* zero blocks) and the sizing functions they use.                         *)
(*                                                                         *)
(* Coordinates are integers in units of 1/Scale pixel, so that the         *)
(* halvings of the merge arithmetic are exact.                             *)
(***************************************************************************)
EXTENDS Integers, Sequences, FiniteSets, TLC

(***************************************************************************)
(* Bounds of the model                                                     *)
(***************************************************************************)
MaxSteps == 5
MaxDrags == 1
MaxStale == 3
MaxHalveValue == 40
MaxCalls == 3
MaxOrderCalls == 2
MaxCoolCalls == 1
MaxTicks == 4
MaxCoord == 2
MaxLayoutValue == 999
MaxColorValue == 1100
MaxSneezeValue == 12
TickMs == 50

Scale == 2 ^ (MaxSteps + 1)

(***************************************************************************)
(* Program constants                                                       *)
(***************************************************************************)
CUBE_SIZE == 48
CUBE_GAP == 2
SNEEZE_MIN_WIDTH == 768
BLOCK_COOLDOWN_MS == 150
margin == 10
topMargin == 40

Null == [none |-> TRUE]

Px(n) == n * Scale
Half(n) == n \div 2
Min(a, b) == IF a < b THEN a ELSE b
Max(a, b) == IF a > b THEN a ELSE b
Ceil(a, b) == (a + b - 1) \div b

(***************************************************************************)
(* Sizes (types: getSubBlockDimensions, getBlockDimensions), in pixels     *)
(***************************************************************************)
getSubBlockDimensions(value) ==
    IF value = 0 THEN [width |-> 0, height |-> 0]
    ELSE IF value = 4
      THEN [width |-> CUBE_SIZE * 2 + CUBE_GAP, height |-> CUBE_SIZE * 2 + CUBE_GAP]
    ELSE IF value = 7
      THEN [width |-> CUBE_SIZE, height |-> value * CUBE_SIZE + (value - 1) * CUBE_GAP]
    ELSE IF value = 9
      THEN [width |-> CUBE_SIZE * 3 + CUBE_GAP * 2, height |-> CUBE_SIZE * 3 + CUBE_GAP * 2]
    ELSE IF value <= 5
      THEN [width |-> CUBE_SIZE, height |-> value * CUBE_SIZE + (value - 1) * CUBE_GAP]
    ELSE LET cols == IF value >= 30 THEN value \div 10 ELSE 2
             rows == Ceil(value, cols)
         IN  [width |-> cols * CUBE_SIZE + (cols - 1) * CUBE_GAP,
              height |-> rows * CUBE_SIZE + (rows - 1) * CUBE_GAP]

\* faulty variant: the height of the hundred-squares is taken as the total
\* height even where the remainder is taller
getBlockDimensionsHundredsHigh(value) ==
    IF value < 100 THEN getSubBlockDimensions(value)
    ELSE LET hundreds == value \div 100
             tensAndUnits == value % 100
             hundredSquareSpacing == 10 * CUBE_SIZE + 9 * CUBE_GAP + CUBE_GAP * 2
             hundredCols == IF hundreds >= 7 THEN 3 ELSE IF hundreds >= 4 THEN 2 ELSE 1
             hundredsWidth == hundredCols * hundredSquareSpacing - CUBE_GAP * 2
             hundredsHeight == Ceil(hundreds, hundredCols) * hundredSquareSpacing
                                 - CUBE_GAP * 2
         IN  [width |-> IF tensAndUnits > 0
                          THEN hundredsWidth + CUBE_GAP * 4
                                 + getSubBlockDimensions(tensAndUnits).width
                          ELSE hundredsWidth,
              height |-> hundredsHeight]

getBlockDimensions(value) ==
    IF value < 100 THEN getSubBlockDimensions(value)
    ELSE LET hundreds == value \div 100
             tensAndUnits == value % 100
             hundredSquareSize == 10 * CUBE_SIZE + 9 * CUBE_GAP
             hundredSquareSpacing == hundredSquareSize + CUBE_GAP * 2
             hundredCols == IF hundreds >= 7 THEN 3 ELSE IF hundreds >= 4 THEN 2 ELSE 1
             hundredRows == Ceil(hundreds, hundredCols)
             hundredsWidth == hundredCols * hundredSquareSpacing - CUBE_GAP * 2
             hundredsHeight == hundredRows * hundredSquareSpacing - CUBE_GAP * 2
             remainderDims == getSubBlockDimensions(tensAndUnits)
         IN  IF tensAndUnits > 0
               THEN [width |-> hundredsWidth + CUBE_GAP * 4 + remainderDims.width,
                     height |-> Max(hundredsHeight, remainderDims.height)]
               ELSE [width |-> hundredsWidth, height |-> hundredsHeight]

\* getBlockDimensions in model units
Scaled(dims) == [width |-> Px(dims.width), height |-> Px(dims.height)]

Dims(value) == Scaled(getBlockDimensions(value))

Box(position, dims) ==
    [x |-> position.x, y |-> position.y, width |-> dims.width, height |-> dims.height]

getBoxAtPosition(value, position) == Box(position, Dims(value))

\* faulty variant: the first comparison lets touching boxes through
boxesOverlapLeftClosed(a, b) ==
    /\ a.x <= b.x + b.width
    /\ a.x + a.width > b.x
    /\ a.y < b.y + b.height
    /\ a.y + a.height > b.y

boxesOverlap(a, b) ==
    /\ a.x < b.x + b.width
    /\ a.x + a.width > b.x
    /\ a.y < b.y + b.height
    /\ a.y + a.height > b.y

(***************************************************************************)
(* Helpers on block lists                                                  *)
(***************************************************************************)
Ids(bs) == {bs[i].id : i \in 1..Len(bs)}

\* Array.prototype.find(b => b.id === id): index of the first match, 0 if none
FindIndex(bs, id) ==
    IF \E i \in 1..Len(bs) : bs[i].id = id
      THEN CHOOSE i \in 1..Len(bs) :
             bs[i].id = id /\ \A j \in 1..(i - 1) : bs[j].id # id
      ELSE 0

RECURSIVE SumValues(_)
SumValues(bs) == IF bs = <<>> THEN 0 ELSE Head(bs).value + SumValues(Tail(bs))

NewBlock(id, value, position) ==
    [id |-> id, value |-> value, position |-> position, isDragging |-> FALSE]

(***************************************************************************)
(* Store operations (useNumberBlocks); prev is the React state that the    *)
(* functional updater receives, ref is blocksRef.current                   *)
(***************************************************************************)
addBlock(prev, id, value, position) ==
    Append(prev, NewBlock(id, value, position))

\* faulty variant: filters on the value of the block instead of its id
removeBlockByValue(prev, id) ==
    IF id \in Ids(prev)
      THEN LET Keep(b) == b.value # prev[FindIndex(prev, id)].value IN SelectSeq(prev, Keep)
      ELSE prev

removeBlock(prev, id) ==
    LET Keep(b) == b.id # id IN SelectSeq(prev, Keep)

\* faulty variant: rebuilds the moved block instead of spreading it
updateBlockPositionLosesValue(prev, id, position) ==
    [i \in 1..Len(prev) |->
        IF prev[i].id = id
          THEN [NewBlock(id, 1, position) EXCEPT !.isDragging = prev[i].isDragging]
          ELSE prev[i]]

updateBlockPosition(prev, id, position) ==
    [i \in 1..Len(prev) |->
        IF prev[i].id = id THEN [prev[i] EXCEPT !.position = position] ELSE prev[i]]

startDragging(prev, id) ==
    [i \in 1..Len(prev) |->
        IF prev[i].id = id THEN [prev[i] EXCEPT !.isDragging = TRUE] ELSE prev[i]]

stopDragging(prev, id) ==
    [i \in 1..Len(prev) |->
        IF prev[i].id = id THEN [prev[i] EXCEPT !.isDragging = FALSE] ELSE prev[i]]

\* the collision loop of checkOverlap and finalizeCombine: index in
\* currentBlocks of the first block other than the dragged one whose box
\* overlaps draggedBox, 0 if none
FindCollision(currentBlocks, draggedId, draggedBox) ==
    LET Hit(i) == /\ currentBlocks[i].id # draggedId
                  /\ boxesOverlap(draggedBox,
                        getBoxAtPosition(currentBlocks[i].value, currentBlocks[i].position))
    IN  IF \E i \in 1..Len(currentBlocks) : Hit(i)
          THEN CHOOSE i \in 1..Len(currentBlocks) :
                 Hit(i) /\ \A j \in 1..(i - 1) : ~Hit(j)
          ELSE 0

\* checkOverlap: the new value of pendingCombination
checkOverlap(ref, draggedId, draggedPos) ==
    LET d == FindIndex(ref, draggedId) IN
    IF d = 0 THEN Null
    ELSE LET draggedBox == getBoxAtPosition(ref[d].value, draggedPos)
             c == FindCollision(ref, draggedId, draggedBox)
         IN  IF c = 0 THEN Null
             ELSE LET targetBox == getBoxAtPosition(ref[c].value, ref[c].position)
                  IN  [draggingId |-> draggedId,
                       targetId |-> ref[c].id,
                       position |->
                         [x |-> Half(draggedBox.x + Half(draggedBox.width)
                                     + targetBox.x + Half(targetBox.width)),
                          y |-> Min(draggedBox.y, targetBox.y) - Px(40)]]

\* faulty variant of the updater: the overlapped block is not filtered out
CombineUpdateKeepsTarget(prev, draggedId, collidingId, newBlock) ==
    LET Keep(b) == b.id # draggedId
    IN  Append(SelectSeq(prev, Keep), newBlock)

\* setBlocks updater of finalizeCombine
CombineUpdate(prev, draggedId, collidingId, newBlock) ==
    LET Keep(b) == b.id # draggedId /\ b.id # collidingId
    IN  Append(SelectSeq(prev, Keep), newBlock)

\* finalizeCombine: return value, resulting React state, sources and result
finalizeCombine(ref, prev, win, draggedId, draggedPos, newId) ==
    LET d == FindIndex(ref, draggedId) IN
    IF d = 0 THEN [ret |-> FALSE, blocks |-> prev, srcs |-> {}, news |-> {}]
    ELSE
      LET draggedBox == getBoxAtPosition(ref[d].value, draggedPos)
          c == FindCollision(ref, draggedId, draggedBox)
      IN
      IF c = 0 THEN [ret |-> FALSE, blocks |-> prev, srcs |-> {}, news |-> {}]
      ELSE
        LET newValue == ref[d].value + ref[c].value
            collidingBox == getBoxAtPosition(ref[c].value, ref[c].position)
            newDims == Dims(newValue)
            centerX == Half(draggedBox.x + Half(draggedBox.width)
                            + collidingBox.x + Half(collidingBox.width))
            centerY == Half(draggedBox.y + Half(draggedBox.height)
                            + collidingBox.y + Half(collidingBox.height))
            maxX == Px(win.width) - newDims.width - Px(margin)
            maxY == Px(win.height) - newDims.height - Px(margin)
            x == Max(Px(margin), Min(centerX - Half(newDims.width), maxX))
            y == Max(Px(topMargin), Min(centerY - Half(newDims.height), maxY))
            newBlock == NewBlock(newId, newValue, [x |-> x, y |-> y])
        IN  [ret |-> TRUE,
             blocks |-> CombineUpdate(prev, draggedId, ref[c].id, newBlock),
             srcs |-> {draggedId, ref[c].id},
             news |-> {newId}]

\* faulty variant of the updater: the block of the remaining value is dropped
SplitUpdateOneResult(prev, id, newBlock1, newBlock2) ==
    LET Keep(b) == b.id # id
    IN  Append(SelectSeq(prev, Keep), newBlock2)

\* faulty variant: the subtracted block is appended before the remaining one
SplitUpdateSwapped(prev, id, newBlock1, newBlock2) ==
    LET Keep(b) == b.id # id
    IN  Append(Append(SelectSeq(prev, Keep), newBlock2), newBlock1)

\* setBlocks updater of splitBlock
SplitUpdate(prev, id, newBlock1, newBlock2) ==
    LET Keep(b) == b.id # id
    IN  Append(Append(SelectSeq(prev, Keep), newBlock1), newBlock2)

\* faulty variant: taking a single cube off is rejected as well
SplitAcceptedAboveOne(ref, id, subtractValue) ==
    LET i == FindIndex(ref, id) IN
    ~(i = 0 \/ subtractValue <= 1 \/ subtractValue >= ref[i].value)

\* the range check of splitBlock
SplitAccepted(ref, id, subtractValue) ==
    LET i == FindIndex(ref, id) IN
    ~(i = 0 \/ subtractValue <= 0 \/ subtractValue >= ref[i].value)

\* positions of the two blocks made by splitBlock
SplitPositions(win, position, remainingValue, subtractValue) ==
    LET dims1 == Dims(remainingValue)
        dims2 == Dims(subtractValue)
        screenWidth == Px(win.width)
        screenHeight == Px(win.height)
        clampX(x, width) ==
            Max(Px(margin), Min(x, Max(Px(margin), screenWidth - width - Px(margin))))
        clampY(y, height) ==
            Max(Px(topMargin), Min(y, Max(Px(topMargin), screenHeight - height - Px(margin))))
        totalWidth == dims1.width + dims2.width + Px(20)
        totalHeight == dims1.height + dims2.height + Px(20)
        canFitHorizontally == totalWidth <= screenWidth - Px(margin) * 2
        canFitVertically == totalHeight <= screenHeight - Px(topMargin) - Px(margin)
    IN
    IF canFitHorizontally THEN
        LET p1x == clampX(position.x - Px(30), dims1.width)
            minX2 == p1x + dims1.width + Px(10)
        IN  [pos1 |-> [x |-> p1x, y |-> clampY(position.y, dims1.height)],
             pos2 |-> [x |-> clampX(Max(minX2, position.x + dims1.width + Px(10)), dims2.width),
                       y |-> clampY(position.y, dims2.height)],
             layout |-> "horizontal"]
    ELSE IF canFitVertically THEN
        LET p1y == clampY(position.y, dims1.height)
            minY2 == p1y + dims1.height + Px(10)
        IN  [pos1 |-> [x |-> clampX(position.x, dims1.width), y |-> p1y],
             pos2 |-> [x |-> clampX(position.x, dims2.width),
                       y |-> clampY(Max(minY2, position.y + dims1.height + Px(20)), dims2.height)],
             layout |-> "vertical"]
    ELSE
        [pos1 |-> [x |-> Px(margin), y |-> Px(topMargin)],
         pos2 |-> [x |-> clampX(screenWidth - dims2.width - Px(margin), dims2.width),
                   y |-> clampY(screenHeight - dims2.height - Px(margin), dims2.height)],
         layout |-> "corners"]

\* splitBlock: return value, resulting React state, sources and results
splitBlock(ref, prev, win, id, subtractValue, newId1, newId2) ==
    IF ~SplitAccepted(ref, id, subtractValue)
      THEN [ret |-> FALSE, blocks |-> prev, srcs |-> {}, news |-> {}]
      ELSE
        LET block == ref[FindIndex(ref, id)]
            remainingValue == block.value - subtractValue
            p == SplitPositions(win, block.position, remainingValue, subtractValue)
            newBlock1 == NewBlock(newId1, remainingValue, p.pos1)
            newBlock2 == NewBlock(newId2, subtractValue, p.pos2)
        IN  [ret |-> TRUE,
             blocks |-> SplitUpdate(prev, id, newBlock1, newBlock2),
             srcs |-> {id},
             news |-> {newId1, newId2}]

(***************************************************************************)
(* Sneeze split rules (SneezeMenu)                                         *)
(***************************************************************************)
\* faulty variant: the tens are rounded down from the value itself
calculateSneeze1SplitFloor(value) ==
    IF value = 1 THEN <<1, 1>>
    ELSE IF value <= 10 THEN <<value - 1, 1>>
    ELSE LET tens == (value \div 10) * 10 IN <<tens, value - tens>>

calculateSneeze1Split(value) ==
    IF value = 1 THEN <<1, 1>>
    ELSE IF value <= 10 THEN <<value - 1, 1>>
    ELSE LET tens == ((value - 1) \div 10) * 10 IN <<tens, value - tens>>

\* faulty variant: the halves are one off
calculateSneeze2SplitOff(value) ==
    IF value = 1 THEN <<0, 1>>
    ELSE LET half == value \div 2 IN <<half + 1, value - half - 1>>

calculateSneeze2Split(value) ==
    IF value = 1 THEN <<0, 1>>
    ELSE LET half == value \div 2 IN <<half, value - half>>

(***************************************************************************)
(* Hit testing (App: isPointInBlock, findBlockAtPoint)                     *)
(***************************************************************************)
isPointInBlock(point, block) ==
    /\ point.x >= block.position.x
    /\ point.x <= block.position.x + Dims(block.value).width
    /\ point.y >= block.position.y
    /\ point.y <= block.position.y + Dims(block.value).height

\* index of the last block in the list that contains the point, 0 if none
findBlockAtPoint(point, bs) ==
    IF \E i \in 1..Len(bs) : isPointInBlock(point, bs[i])
      THEN CHOOSE i \in 1..Len(bs) :
             /\ isPointInBlock(point, bs[i])
             /\ \A j \in (i + 1)..Len(bs) : ~isPointInBlock(point, bs[j])
      ELSE 0

Center(block) ==
    [x |-> block.position.x + Half(Dims(block.value).width),
     y |-> block.position.y + Half(Dims(block.value).height)]

(***************************************************************************)
(* Inputs                                                                  *)
(***************************************************************************)
Pos(x, y) == [x |-> Px(x), y |-> Px(y)]

WindowSizes == {[width |-> 1024, height |-> 768]}
SpawnValues == {1, 3}
SpawnPositions == {Pos(100, 100), Pos(160, 100)}
DragPositions == {Pos(130, 100), Pos(600, 400)}
SneezeTypes == {"sneeze1", "sneeze2"}

(***************************************************************************)
(* State                                                                   *)
(***************************************************************************)
VARIABLES
    blocks,              \* React state of useNumberBlocks, all updaters applied
    blocksRef,           \* blocksRef.current and the list captured by the
                         \* handlers of the last render
    pendingCombination,  \* Null or [draggingId, targetId, position]
    zeroBlocks,          \* React state of App: sequence of [id, position]
    subtractMenu,        \* Null or [blockId, blockValue]
    timers,              \* pending sneeze timeouts, in firing order
    drags,               \* ids of the blocks held by a drag gesture
    nextId,              \* ids handed out so far by generateId, plus one
    win,                 \* window.innerWidth / innerHeight
    stale,               \* handlers that changed blocks since the last render
    steps,               \* handlers and timer callbacks run so far
    last,                \* the last operation that added or removed entities:
                         \* [op, id, ret]
    now,                 \* Date.now(), in ms
    createdAt,           \* the createdAt field of the blocks, by id
    components           \* the mounted NumberBlock components, by id:
                         \* [isInCooldown, effect, timer]

vars == <<blocks, blocksRef, pendingCombination, zeroBlocks, subtractMenu,
          timers, drags, nextId, win, stale, steps, last,
          now, createdAt, components>>

\* the creation stamps and the NumberBlock components are followed in the
\* cooldown specification only; everywhere else the clock stands still
ClockOff ==
    /\ now = 0
    /\ createdAt = <<>>
    /\ components = <<>>

ClockUnchanged == UNCHANGED <<now, createdAt, components>>

\* a handler that calls setBlocks runs before React has rendered the
\* previous ones
Mutates ==
    /\ stale < MaxStale /\ stale' = stale + 1
    /\ steps < MaxSteps /\ steps' = steps + 1
    /\ ClockUnchanged

\* a handler that leaves blocks alone
Reads ==
    /\ steps < MaxSteps /\ steps' = steps + 1
    /\ UNCHANGED stale
    /\ ClockUnchanged

Op(op, id, r) == [op |-> op, id |-> id, ret |-> r.ret]

NoResult == [ret |-> FALSE]

Init ==
    /\ blocks = <<>>
    /\ blocksRef = <<>>
    /\ pendingCombination = Null
    /\ zeroBlocks = <<>>
    /\ subtractMenu = Null
    /\ timers = <<>>
    /\ drags = {}
    /\ nextId = 1
    /\ win \in WindowSizes
    /\ stale = 0
    /\ steps = 0
    /\ last = Op("init", 0, NoResult)
    /\ ClockOff

\* the trash can and the sneeze menu are rendered on wide windows only
showSneezeMenu == win.width >= SNEEZE_MIN_WIDTH

(***************************************************************************)
(* React commits a render and runs the effect that refreshes blocksRef     *)
(***************************************************************************)
Render ==
    /\ stale > 0
    /\ blocksRef' = blocks
    /\ stale' = 0
    /\ UNCHANGED steps
    /\ UNCHANGED <<blocks, pendingCombination, zeroBlocks, subtractMenu,
                   timers, drags, nextId, win, last>>
    /\ ClockUnchanged

(***************************************************************************)
(* App.handleSpawn                                                         *)
(***************************************************************************)
SpawnBlocks(rendered, prev, w, value, position, newId) ==
    LET spawnBox == getBoxAtPosition(value, position)
        Hit(i) == boxesOverlap(spawnBox,
                     getBoxAtPosition(rendered[i].value, rendered[i].position))
    IN
    IF \E i \in 1..Len(rendered) : Hit(i) THEN
        LET i == CHOOSE i \in 1..Len(rendered) : Hit(i) /\ \A j \in 1..(i - 1) : ~Hit(j)
            block == rendered[i]
            blockBox == getBoxAtPosition(block.value, block.position)
            newValue == value + block.value
            newDims == Dims(newValue)
            centerX == Half(spawnBox.x + Half(spawnBox.width)
                            + blockBox.x + Half(blockBox.width))
            centerY == Half(spawnBox.y + Half(spawnBox.height)
                            + blockBox.y + Half(blockBox.height))
            maxX == Px(w.width) - newDims.width - Px(margin)
            maxY == Px(w.height) - newDims.height - Px(margin)
            newX == Max(Px(margin), Min(centerX - Half(newDims.width), maxX))
            newY == Max(Px(margin), Min(centerY - Half(newDims.height), maxY))
        IN  [ret |-> TRUE,
             blocks |-> addBlock(removeBlock(prev, block.id), newId, newValue,
                                 [x |-> newX, y |-> newY]),
             srcs |-> {block.id}, news |-> {newId}]
    ELSE [ret |-> FALSE,
          blocks |-> addBlock(prev, newId, value, position),
          srcs |-> {}, news |-> {newId}]

handleSpawn(value, position) ==
    /\ Mutates
    /\ LET r == SpawnBlocks(blocksRef, blocks, win, value, position, nextId) IN
         /\ blocks' = r.blocks
         /\ last' = Op("spawn", nextId, r)
    /\ nextId' = nextId + 1
    /\ UNCHANGED <<blocksRef, pendingCombination, zeroBlocks, subtractMenu,
                   timers, drags, win>>

(***************************************************************************)
(* Drag of a number block (NumberBlock handlers -> App handlers)           *)
(***************************************************************************)
handleDragStart(id) ==
    /\ Mutates
    /\ id \in Ids(blocksRef)
    /\ id \notin drags
    /\ Cardinality(drags) < MaxDrags
    /\ drags' = drags \cup {id}
    /\ blocks' = startDragging(blocks, id)
    /\ UNCHANGED <<blocksRef, pendingCombination, zeroBlocks, subtractMenu,
                   timers, nextId, win, last>>

\* the overlap check is throttled: runCheck tells whether this sample passes
handleDrag(id, position, runCheck) ==
    /\ Mutates
    /\ id \in drags
    /\ blocks' = updateBlockPosition(blocks, id, position)
    /\ pendingCombination' =
         IF runCheck THEN checkOverlap(blocksRef, id, position) ELSE pendingCombination
    /\ UNCHANGED <<blocksRef, zeroBlocks, subtractMenu, timers, drags, nextId, win, last>>

\* handleDragEnd with the pointer over the trash can
handleDragEndTrash(id) ==
    /\ Mutates
    /\ id \in drags
    /\ showSneezeMenu
    /\ drags' = drags \ {id}
    /\ blocks' = removeBlock(blocks, id)
    /\ last' = Op("trash", id, NoResult)
    /\ UNCHANGED <<blocksRef, pendingCombination, zeroBlocks, subtractMenu,
                   timers, nextId, win>>

\* handleDragEnd elsewhere: updateBlockPosition, finalizeCombine, stopDragging
\* faulty variant: the merge is decided by the last preview, not by an overlap
\* computation at the drop position
DragEndCombineFromPreview(id, position) ==
    LET prev == updateBlockPosition(blocks, id, position)
        d == FindIndex(blocksRef, id)
        c == IF pendingCombination = Null THEN 0
             ELSE FindIndex(blocksRef, pendingCombination.targetId)
    IN  IF d = 0 \/ c = 0
          THEN [ret |-> FALSE, blocks |-> prev, srcs |-> {}, news |-> {}]
          ELSE [ret |-> TRUE,
                blocks |-> CombineUpdate(prev, id, blocksRef[c].id,
                              NewBlock(nextId, blocksRef[d].value + blocksRef[c].value,
                                       position)),
                srcs |-> {id, blocksRef[c].id},
                news |-> {nextId}]

\* updateBlockPosition, then finalizeCombine on the list of the last effect
DragEndCombine(id, position) ==
    finalizeCombine(blocksRef, updateBlockPosition(blocks, id, position),
                    win, id, position, nextId)

handleDragEnd(id, position) ==
    /\ Mutates
    /\ id \in drags
    /\ drags' = drags \ {id}
    /\ LET r == DragEndCombine(id, position)
       IN  /\ blocks' = stopDragging(r.blocks, id)
           /\ nextId' = IF r.ret THEN nextId + 1 ELSE nextId
           /\ last' = [op |-> "dragEnd", id |-> id, ret |-> r.ret,
                       preview |-> pendingCombination # Null]
    /\ pendingCombination' = Null
    /\ UNCHANGED <<blocksRef, zeroBlocks, subtractMenu, timers, win>>

(***************************************************************************)
(* Subtract menu (NumberBlock.handleContextMenu, SubtractMenu, App)        *)
(***************************************************************************)
handleRightClick(id) ==
    /\ Reads
    /\ FindIndex(blocksRef, id) # 0
    /\ blocksRef[FindIndex(blocksRef, id)].value > 1
    /\ subtractMenu' = [blockId |-> id,
                        blockValue |-> blocksRef[FindIndex(blocksRef, id)].value]
    /\ UNCHANGED <<blocks, blocksRef, pendingCombination, zeroBlocks, timers,
                   drags, nextId, win, last>>

\* the options offered by the menu
SubtractOptions(blockValue) == 1..Min(blockValue - 1, 20)

handleSubtract(subtractValue) ==
    /\ Mutates
    /\ subtractMenu # Null
    /\ subtractValue \in SubtractOptions(subtractMenu.blockValue)
    /\ LET r == splitBlock(blocksRef, blocks, win, subtractMenu.blockId,
                           subtractValue, nextId, nextId + 1)
       IN  /\ blocks' = r.blocks
           /\ nextId' = IF r.ret THEN nextId + 2 ELSE nextId
           /\ last' = Op("subtract", subtractMenu.blockId, r)
    /\ subtractMenu' = Null
    /\ UNCHANGED <<blocksRef, pendingCombination, zeroBlocks, timers, drags, win>>

handleCloseSubtractMenu ==
    /\ Reads
    /\ subtractMenu # Null
    /\ subtractMenu' = Null
    /\ UNCHANGED <<blocks, blocksRef, pendingCombination, zeroBlocks, timers,
                   drags, nextId, win, last>>

(***************************************************************************)
(* Sneeze (DraggableSneeze.handleDragEnd -> App.handleSneeze) and the      *)
(* three delayed callbacks it schedules                                    *)
(***************************************************************************)
\* live is history: whether the block was in the store when the sneeze was
\* dropped on it (handleSneeze sets it, no callback reads it)
Timer(kind, blockId, second, position) ==
    [kind |-> kind, blockId |-> blockId, second |-> second, position |-> position,
     live |-> FALSE]

Live(ts, live) == [i \in 1..Len(ts) |-> [ts[i] EXCEPT !.live = live]]

\* the timers handleSneeze adds for a block of the captured list
SneezeTimers(block, sneezeType) ==
    LET split == IF sneezeType = "sneeze1"
                   THEN calculateSneeze1Split(block.value)
                   ELSE calculateSneeze2Split(block.value)
        first == split[1]
        second == split[2]
    IN  IF block.value < 1 THEN <<>>
        ELSE IF block.value = 1 /\ sneezeType = "sneeze1"
          THEN <<Timer("dup", block.id, second, block.position)>>
        ELSE IF block.value = 1 /\ sneezeType = "sneeze2"
          THEN <<Timer("zero", block.id, second, block.position)>>
        ELSE IF first > 0 /\ second > 0 /\ first + second = block.value
          THEN <<Timer("split", block.id, second, block.position)>>
        ELSE <<>>

\* a sneeze dropped at a point: the block found there is sneezed on
handleSneeze(point, sneezeType) ==
    /\ Reads
    /\ showSneezeMenu
    /\ findBlockAtPoint(point, blocksRef) # 0
    /\ LET block == blocksRef[findBlockAtPoint(point, blocksRef)] IN
         /\ block.value >= 1
         /\ timers' = timers \o Live(SneezeTimers(block, sneezeType),
                                      block.id \in Ids(blocks))
    /\ UNCHANGED <<blocks, blocksRef, pendingCombination, zeroBlocks, subtractMenu,
                   drags, nextId, win, last>>

\* setTimeout callback of "sneeze 1 on 1": addBlock
\* faulty variant: the sneezed block is removed before the copy is added
SneezeDupBlocksRemovesSource(prev, w, t, newId) ==
    LET dims == Dims(1) IN
    addBlock(removeBlock(prev, t.blockId), newId, 1,
             [x |-> Min(t.position.x + dims.width + Px(20),
                        Px(w.width) - dims.width - Px(10)),
              y |-> t.position.y])

\* faulty variant: the duplicate is merged into the sneezed block at once
SneezeDupBlocksDoubles(prev, w, t, newId) ==
    addBlock(removeBlock(prev, t.blockId), newId, 1 + 1, t.position)

SneezeDupBlocks(prev, w, t, newId) ==
    LET dims == Dims(1) IN
    addBlock(prev, newId, 1,
             [x |-> Min(t.position.x + dims.width + Px(20),
                        Px(w.width) - dims.width - Px(10)),
              y |-> t.position.y])

SneezeDupTimer ==
    /\ Mutates
    /\ timers # <<>>
    /\ Head(timers).kind = "dup"
    /\ blocks' = SneezeDupBlocks(blocks, win, Head(timers), nextId)
    /\ nextId' = nextId + 1
    /\ timers' = Tail(timers)
    /\ last' = Op("sneezeDup", Head(timers).blockId, NoResult)
    /\ UNCHANGED <<blocksRef, pendingCombination, zeroBlocks, subtractMenu, drags, win>>

\* setTimeout callback of "sneeze 2 on 1": removeBlock, then a new zero block
SneezeZeroBlocks(prev, t) == removeBlock(prev, t.blockId)

SneezeZeroZeros(prevZeros, t, newId) ==
    LET dims == Dims(1) IN
    Append(prevZeros,
           [id |-> newId,
            position |-> [x |-> t.position.x + Half(dims.width) - Px(20),
                          y |-> t.position.y + Half(dims.height) - Px(30)]])

SneezeZeroTimer ==
    /\ Mutates
    /\ timers # <<>>
    /\ Head(timers).kind = "zero"
    /\ blocks' = SneezeZeroBlocks(blocks, Head(timers))
    /\ zeroBlocks' = SneezeZeroZeros(zeroBlocks, Head(timers), nextId)
    /\ nextId' = nextId + 1
    /\ timers' = Tail(timers)
    /\ last' = Op("sneezeZero", Head(timers).blockId, NoResult)
    /\ UNCHANGED <<blocksRef, pendingCombination, subtractMenu, drags, win>>

\* setTimeout callback of the normal sneeze: splitBlock(blockId, second, true)
SneezeSplitTimer ==
    /\ Mutates
    /\ timers # <<>>
    /\ Head(timers).kind = "split"
    /\ LET t == Head(timers)
           r == splitBlock(blocksRef, blocks, win, t.blockId, t.second,
                           nextId, nextId + 1)
       IN  /\ blocks' = r.blocks
           /\ nextId' = IF r.ret THEN nextId + 2 ELSE nextId
           /\ last' = Op("sneezeSplit", t.blockId, r)
    /\ timers' = Tail(timers)
    /\ UNCHANGED <<blocksRef, pendingCombination, zeroBlocks, subtractMenu, drags, win>>

(***************************************************************************)
(* Zero block drag end (App, inline onDragEnd)                             *)
(***************************************************************************)
\* faulty variant: a zero dropped on a block stays where it was
ZeroDropUpdateKeepsZero(prevZeros, rendered, zid, point) ==
    IF findBlockAtPoint(point, rendered) # 0
      THEN prevZeros
      ELSE [i \in 1..Len(prevZeros) |->
              IF prevZeros[i].id = zid
                THEN [prevZeros[i] EXCEPT !.position =
                        [x |-> point.x - Px(20), y |-> point.y - Px(30)]]
                ELSE prevZeros[i]]

ZeroDropUpdate(prevZeros, rendered, zid, point) ==
    IF findBlockAtPoint(point, rendered) # 0
      THEN LET Keep(z) == z.id # zid IN SelectSeq(prevZeros, Keep)
      ELSE [i \in 1..Len(prevZeros) |->
              IF prevZeros[i].id = zid
                THEN [prevZeros[i] EXCEPT !.position =
                        [x |-> point.x - Px(20), y |-> point.y - Px(30)]]
                ELSE prevZeros[i]]

zeroDragEnd(zid, point) ==
    /\ Reads
    /\ \E i \in 1..Len(zeroBlocks) : zeroBlocks[i].id = zid
    /\ zeroBlocks' = ZeroDropUpdate(zeroBlocks, blocksRef, zid, point)
    /\ last' = Op("zeroDragEnd", zid, [ret |-> findBlockAtPoint(point, blocksRef) # 0])
    /\ UNCHANGED <<blocks, blocksRef, pendingCombination, subtractMenu, timers,
                   drags, nextId, win>>

(***************************************************************************)
(* Specification                                                           *)
(***************************************************************************)
\* points a sneeze or a zero block is dropped at: the centre of a block on
\* screen, or empty canvas
DropPoints == {Center(blocksRef[i]) : i \in 1..Len(blocksRef)} \cup {Pos(900, 700)}

Next ==
    \/ Render
    \/ \E v \in SpawnValues, p \in SpawnPositions : handleSpawn(v, p)
    \/ \E id \in Ids(blocksRef) : handleDragStart(id)
    \/ \E id \in drags, p \in DragPositions, c \in BOOLEAN : handleDrag(id, p, c)
    \/ \E id \in drags : handleDragEndTrash(id)
    \/ \E id \in drags, p \in DragPositions : handleDragEnd(id, p)
    \/ \E id \in Ids(blocksRef) : handleRightClick(id)
    \/ \E k \in 1..20 : handleSubtract(k)
    \/ handleCloseSubtractMenu
    \/ \E p \in DropPoints, t \in SneezeTypes : handleSneeze(p, t)
    \/ SneezeDupTimer
    \/ SneezeZeroTimer
    \/ SneezeSplitTimer
    \/ \E i \in 1..Len(zeroBlocks), p \in DropPoints : zeroDragEnd(zeroBlocks[i].id, p)

Spec == Init /\ [][Next]_vars

(***************************************************************************)
(* Vocabulary of the properties                                            *)
(***************************************************************************)
ValueOf(bs, id) == bs[FindIndex(bs, id)].value

\* ids that enter and leave the store in a step
Added == Ids(blocks') \ Ids(blocks)

Removed == Ids(blocks) \ Ids(blocks')

\* indices of the store blocks, other than id, that the box of id placed at
\* position p overlaps
StoreHits(id, p) ==
    {i \in 1..Len(blocks) :
        /\ blocks[i].id # id
        /\ boxesOverlap(getBoxAtPosition(ValueOf(blocks, id), p),
                        getBoxAtPosition(blocks[i].value, blocks[i].position))}

FirstStoreHit(id, p) == CHOOSE i \in StoreHits(id, p) : \A j \in StoreHits(id, p) : i <= j

\* every block of the store other than those in ids is in the store, unchanged,
\* after the step
OthersUnchanged(ids) ==
    \A i \in 1..Len(blocks) :
        blocks[i].id \notin ids =>
            \E j \in 1..Len(blocks') : blocks'[j] = blocks[i]

\* a step that is the merge protocol run for block id dropped at p
MergeStep(id, p) == handleDragEnd(id, p)

\* a step that is splitBlock(s, k), from the subtract menu or a sneeze timer
SubtractStep(s, k) ==
    /\ subtractMenu # Null
    /\ subtractMenu.blockId = s
    /\ handleSubtract(k)

SneezeSplitStep(s, k) ==
    /\ timers # <<>>
    /\ Head(timers).blockId = s
    /\ Head(timers).second = k
    /\ SneezeSplitTimer

SplitStep(s, k) == SubtractStep(s, k) \/ SneezeSplitStep(s, k)

\* the blocks a split can be asked for: the one of the open subtract menu and
\* the one of the timer that fires next
SplitTargets ==
    (IF subtractMenu # Null THEN {subtractMenu.blockId} ELSE {})
      \cup (IF timers # <<>> THEN {Head(timers).blockId} ELSE {})

Amounts == 0..20

(***************************************************************************)
(* C1: every drag-end merge (finalizeCombine) and every split (splitBlock, *)
(* from the subtract menu or from a sneeze on a block of value >= 2)       *)
(* leaves the sum of the values of all number blocks in the store          *)
(* unchanged.                                                              *)
(***************************************************************************)
C1_Conservation ==
    [][ /\ \A id \in drags, p \in DragPositions :
             MergeStep(id, p) => SumValues(blocks') = SumValues(blocks)
        /\ \A s \in SplitTargets, k \in Amounts :
             SplitStep(s, k) => SumValues(blocks') = SumValues(blocks) ]_vars

(***************************************************************************)
(* C2: finalizeCombine called for a block that is in the store and whose   *)
(* box at the final position overlaps at least one other block returns     *)
(* true; afterwards neither the dragged block nor the overlapped target is *)
(* in the store, exactly one new block is, its value is the sum of the two *)
(* source values, and the store holds one block less.                      *)
(***************************************************************************)
C2_MergeOutcome ==
    [][ \A id \in drags, p \in DragPositions :
          (MergeStep(id, p) /\ id \in Ids(blocks) /\ StoreHits(id, p) # {})
            => /\ last'.ret = TRUE
               /\ id \notin Ids(blocks')
               /\ Cardinality(Added) = 1
               /\ Len(blocks') = Len(blocks) - 1
               /\ \E i \in StoreHits(id, p) :
                    /\ blocks[i].id \notin Ids(blocks')
                    /\ \A n \in Added :
                         ValueOf(blocks', n) = ValueOf(blocks, id) + blocks[i].value ]_vars

(***************************************************************************)
(* C3: finalizeCombine called with a dragged id that is not in the store,  *)
(* or with a final position at which the dragged box overlaps no other     *)
(* block, returns false, adds, removes and changes no block (the list is   *)
(* what updateBlockPosition and stopDragging alone make of it) and leaves  *)
(* PendingCombination absent.                                              *)
(***************************************************************************)
C3_NoMergeNoChange ==
    [][ \A id \in drags, p \in DragPositions :
          (MergeStep(id, p) /\ (id \notin Ids(blocks) \/ StoreHits(id, p) = {}))
            => /\ last'.ret = FALSE
               /\ blocks' = stopDragging(updateBlockPosition(blocks, id, p), id)
               /\ pendingCombination' = Null ]_vars

(***************************************************************************)
(* C4: when the dragged box at the drop position overlaps two or more      *)
(* other blocks, only the first of them in store order is merged: that     *)
(* block and the dragged block are removed, every other block stays        *)
(* unchanged, and exactly one block is created in the drop.                *)
(***************************************************************************)
C4_FirstOverlapOnly ==
    [][ \A id \in drags, p \in DragPositions :
          (MergeStep(id, p) /\ id \in Ids(blocks) /\ Cardinality(StoreHits(id, p)) >= 2)
            => LET first == blocks[FirstStoreHit(id, p)].id IN
               /\ Removed = {id, first}
               /\ Cardinality(Added) = 1
               /\ OthersUnchanged({id, first}) ]_vars

(***************************************************************************)
(* C5: a merge or a split is one store transition that does all of its     *)
(* work or none of it.  After a drag end that merged, the new block is in  *)
(* the store and neither of the two merged blocks is; after a split that   *)
(* was accepted, both new blocks are in the store and the split block is   *)
(* not; a drag end or split that reports false adds and removes nothing.   *)
(* No step removes a block that is not one of the sources.                 *)
(***************************************************************************)
MergeAllOrNothing(id, p) ==
    LET r == finalizeCombine(blocksRef, updateBlockPosition(blocks, id, p),
                             win, id, p, nextId)
    IN  /\ last'.ret = r.ret
        /\ r.ret => /\ Added = {nextId}
                    /\ Cardinality(r.srcs) = 2
                    /\ r.srcs \cap Ids(blocks') = {}
                    /\ Removed \subseteq r.srcs
        /\ ~r.ret => Added = {} /\ Removed = {}

SplitAllOrNothing(s, k) ==
    /\ last'.ret => /\ Added = {nextId, nextId + 1}
                    /\ s \notin Ids(blocks')
                    /\ Removed \subseteq {s}
    /\ ~last'.ret => blocks' = blocks

C5_AllOrNothing ==
    [][ /\ \A id \in drags, p \in DragPositions :
             MergeStep(id, p) => MergeAllOrNothing(id, p)
        /\ \A s \in SplitTargets, k \in Amounts :
             SplitStep(s, k) => SplitAllOrNothing(s, k) ]_vars

\* a drag end has just merged two blocks into one
C5_Witness ==
    /\ last.op = "dragEnd"
    /\ last.ret = TRUE
    /\ last.id \notin Ids(blocks)
    /\ Len(blocks) >= 1

(***************************************************************************)
(* C6: splitBlock(id, subtractAmount) returns false and changes nothing in *)
(* the store when id is not in the store, when subtractAmount <= 0 and     *)
(* when subtractAmount >= the value of the block.                          *)
(***************************************************************************)
C6_SplitRejected ==
    [][ \A s \in SplitTargets, k \in Amounts :
          (SplitStep(s, k) /\ (s \notin Ids(blocks) \/ k <= 0 \/ k >= ValueOf(blocks, s)))
            => last'.ret = FALSE /\ blocks' = blocks ]_vars

(***************************************************************************)
(* C7: splitBlock(id, k) on a block of the store of value v, 0 < k < v,    *)
(* returns true, removes id and nothing else, and adds exactly two blocks  *)
(* with ids never used before, the first of value v - k and the second of  *)
(* value k, both >= 1; the store holds one block more.                     *)
(***************************************************************************)
C7_SplitOutcome ==
    [][ \A s \in SplitTargets, k \in Amounts :
          (SplitStep(s, k) /\ s \in Ids(blocks) /\ 0 < k /\ k < ValueOf(blocks, s))
            => /\ last'.ret = TRUE
               /\ Removed = {s}
               /\ Added = {nextId, nextId + 1}
               /\ Added \cap (Ids(blocksRef) \cup {z.id : z \in {zeroBlocks[i] : i \in 1..Len(zeroBlocks)}}) = {}
               /\ ValueOf(blocks', nextId) = ValueOf(blocks, s) - k
               /\ ValueOf(blocks', nextId + 1) = k
               /\ ValueOf(blocks', nextId) >= 1 /\ k >= 1
               /\ ValueOf(blocks', nextId) + ValueOf(blocks', nextId + 1) = ValueOf(blocks, s)
               /\ Len(blocks') = Len(blocks) + 1
               /\ OthersUnchanged({s}) ]_vars

\* a split from the subtract menu or a sneeze has just been accepted
C7_Witness ==
    /\ last.op \in {"subtract", "sneezeSplit"}
    /\ last.ret = TRUE
    /\ last.id \notin Ids(blocks)
    /\ {nextId - 2, nextId - 1} \subseteq Ids(blocks)

(***************************************************************************)
(* C8: when the timer of a halve-split (sneeze2) on a block of value 1     *)
(* fires and the block is in the store, the block is removed, one new      *)
(* number block of value 1 and one zero block are created, and the sum of  *)
(* the values of the number blocks is what it was.                         *)
(***************************************************************************)
C8_HalveOfOne ==
    [][ (SneezeZeroTimer /\ Head(timers).blockId \in Ids(blocks))
          => /\ Head(timers).blockId \notin Ids(blocks')
             /\ Len(zeroBlocks') = Len(zeroBlocks) + 1
             /\ Cardinality(Added) = 1
             /\ \A n \in Added : ValueOf(blocks', n) = 1
             /\ SumValues(blocks') = SumValues(blocks) ]_vars

(***************************************************************************)
(* C9 (as stated): when the timer of a duplicate-split (sneeze1) on a      *)
(* block of value 1 fires and the block is in the store, the block is      *)
(* removed and two new blocks of value 1 are created.                      *)
(***************************************************************************)
C9_DuplicateRemovesSource ==
    [][ (SneezeDupTimer /\ Head(timers).blockId \in Ids(blocks))
          => /\ Head(timers).blockId \notin Ids(blocks')
             /\ Cardinality(Added) = 2
             /\ \A n \in Added : ValueOf(blocks', n) = 1 ]_vars

(***************************************************************************)
(* C9 (amended): when the timer of a duplicate-split (sneeze1) on a block  *)
(* of value 1 fires, exactly one new block of value 1 with an id never     *)
(* used before is appended to the store and no block is removed or         *)
(* changed: a sneezed block that is still in the store stays in it, and    *)
(* no block of value 2 is made.                                            *)
(***************************************************************************)
C9_DuplicateAddsOne ==
    [][ SneezeDupTimer
          => /\ Len(blocks') = Len(blocks) + 1
             /\ SubSeq(blocks', 1, Len(blocks)) = blocks
             /\ blocks'[Len(blocks')].id = nextId
             /\ nextId \notin Ids(blocks) \cup Ids(blocksRef)
             /\ blocks'[Len(blocks')].value = 1
             /\ SumValues(blocks') = SumValues(blocks) + 1 ]_vars

\* the timer has fired and the sneezed block is still there beside its copy
C9_Witness ==
    /\ last.op = "sneezeDup"
    /\ last.id \in Ids(blocks)
    /\ ValueOf(blocks, last.id) = 1
    /\ nextId - 1 \in Ids(blocks)
    /\ ValueOf(blocks, nextId - 1) = 1

(***************************************************************************)
(* Halving on its own: one rendered block of any value 2..MaxHalveValue,   *)
(* on which sneeze 2 is dropped again and again                            *)
(***************************************************************************)
HalveInit ==
    /\ \E n \in 2..MaxHalveValue :
         /\ blocks = <<NewBlock(1, n, Pos(100, 100))>>
         /\ blocksRef = blocks
    /\ pendingCombination = Null
    /\ zeroBlocks = <<>>
    /\ subtractMenu = Null
    /\ timers = <<>>
    /\ drags = {}
    /\ nextId = 2
    /\ win \in WindowSizes
    /\ stale = 0
    /\ steps = 0
    /\ last = Op("init", 0, NoResult)
    /\ ClockOff

HalveNext ==
    \/ Render
    \/ \E p \in DropPoints : handleSneeze(p, "sneeze2")
    \/ SneezeSplitTimer

SpecHalve == HalveInit /\ [][HalveNext]_vars

\* handleSneeze has queued the halving of the block under point p
HalveQueued(p) ==
    LET block == blocksRef[findBlockAtPoint(p, blocksRef)] IN
    block.value >= 2 =>
      /\ Len(timers') = Len(timers) + 1
      /\ timers'[Len(timers')].blockId = block.id
      /\ timers'[Len(timers')].second = (block.value + 1) \div 2
      /\ SplitAccepted(blocksRef, block.id, timers'[Len(timers')].second)

\* the timer has split block s of the store, taking k off
HalveDone(s, k) ==
    LET n == ValueOf(blocks, s) IN
    /\ n >= 2
    /\ SplitAccepted(blocksRef, s, k)
    /\ last'.ret = TRUE
    /\ Added = {nextId, nextId + 1}
    /\ ValueOf(blocks', nextId) = n \div 2
    /\ ValueOf(blocks', nextId + 1) = (n + 1) \div 2
    /\ ValueOf(blocks', nextId) >= 1
    /\ ValueOf(blocks', nextId) + ValueOf(blocks', nextId + 1) = n
    /\ (n % 2 = 0 => ValueOf(blocks', nextId) = ValueOf(blocks', nextId + 1))

(***************************************************************************)
(* C10: sneeze 2 on a block of value n >= 2 queues a split whose amount is *)
(* ceil(n/2), an amount splitBlock's range check accepts; when the timer   *)
(* fires on a block still in the store the two blocks made have the values *)
(* floor(n/2) and ceil(n/2), equal when n is even, both >= 1 and summing   *)
(* to n.                                                                   *)
(***************************************************************************)
C10_HalveSplit ==
    [][ /\ \A p \in DropPoints : handleSneeze(p, "sneeze2") => HalveQueued(p)
        /\ \A s \in SplitTargets, k \in 1..MaxHalveValue :
             (SneezeSplitStep(s, k) /\ s \in Ids(blocks)) => HalveDone(s, k) ]_vars

\* an odd value has just been halved into two unequal blocks
C10_Witness ==
    /\ last.op = "sneezeSplit"
    /\ last.ret = TRUE
    /\ {nextId - 2, nextId - 1} \subseteq Ids(blocks)
    /\ ValueOf(blocks, nextId - 1) = ValueOf(blocks, nextId - 2) + 1
    /\ ValueOf(blocks, nextId - 1) >= 3

(***************************************************************************)
(* C11: when a sneeze timer fires for a block that was in the store when   *)
(* the sneeze was dropped and is no longer in it, nothing happens: no      *)
(* number block and no zero block is added and nothing is removed,         *)
(* whichever of the three callbacks it is.                                 *)
(***************************************************************************)
C11_TimerOnRemovedBlock ==
    [][ ((SneezeDupTimer \/ SneezeZeroTimer \/ SneezeSplitTimer)
           /\ Head(timers).live
           /\ Head(timers).blockId \notin Ids(blocks))
          => blocks' = blocks /\ zeroBlocks' = zeroBlocks ]_vars

(***************************************************************************)
(* The hook on its own: the functions useNumberBlocks returns, called one  *)
(* after the other with any arguments, ids that are not in the store and   *)
(* values the Mirror never offers included                                 *)
(***************************************************************************)
StoreValues == {-1, 14, 15}
StorePositions == {Pos(100, 100), Pos(130, 100)}
StoreAmounts == {0, 1, 15}

\* ids handed out so far, and one that never was
StoreIds == 1..nextId

\* a call that runs setBlocks
CallMutates ==
    /\ steps < MaxCalls /\ steps' = steps + 1
    /\ stale' = Min(stale + 1, MaxStale)
    /\ ClockUnchanged

\* a call that leaves blocks alone
CallReads ==
    /\ steps < MaxCalls /\ steps' = steps + 1
    /\ UNCHANGED stale
    /\ ClockUnchanged

StoreInit ==
    /\ blocks = <<>>
    /\ blocksRef = <<>>
    /\ pendingCombination = Null
    /\ zeroBlocks = <<>>
    /\ subtractMenu = Null
    /\ timers = <<>>
    /\ drags = {}
    /\ nextId = 1
    /\ win \in WindowSizes
    /\ stale = 0
    /\ steps = 0
    /\ last = Op("init", 0, NoResult)
    /\ ClockOff

CallAddBlock(value, position) ==
    /\ CallMutates
    /\ blocks' = addBlock(blocks, nextId, value, position)
    /\ nextId' = nextId + 1
    /\ last' = Op("addBlock", nextId, [ret |-> TRUE])
    /\ UNCHANGED <<blocksRef, pendingCombination, zeroBlocks, subtractMenu,
                   timers, drags, win>>

CallRemoveBlock(id) ==
    /\ CallMutates
    /\ blocks' = removeBlock(blocks, id)
    /\ last' = Op("removeBlock", id, NoResult)
    /\ UNCHANGED <<blocksRef, pendingCombination, zeroBlocks, subtractMenu,
                   timers, drags, nextId, win>>

CallUpdateBlockPosition(id, position) ==
    /\ CallMutates
    /\ blocks' = updateBlockPosition(blocks, id, position)
    /\ last' = Op("updateBlockPosition", id, NoResult)
    /\ UNCHANGED <<blocksRef, pendingCombination, zeroBlocks, subtractMenu,
                   timers, drags, nextId, win>>

CallStartDragging(id) ==
    /\ CallMutates
    /\ blocks' = startDragging(blocks, id)
    /\ last' = Op("startDragging", id, NoResult)
    /\ UNCHANGED <<blocksRef, pendingCombination, zeroBlocks, subtractMenu,
                   timers, drags, nextId, win>>

CallStopDragging(id) ==
    /\ CallMutates
    /\ blocks' = stopDragging(blocks, id)
    /\ pendingCombination' = Null
    /\ last' = Op("stopDragging", id, NoResult)
    /\ UNCHANGED <<blocksRef, zeroBlocks, subtractMenu, timers, drags, nextId, win>>

\* faulty variant: the preview moves the dragged block
checkOverlapBlocksMoved(prev, draggedId, draggedPos) ==
    updateBlockPosition(prev, draggedId, draggedPos)

\* the block list after checkOverlap: it calls setPendingCombination only
checkOverlapBlocks(prev, draggedId, draggedPos) == prev

CallCheckOverlap(id, position) ==
    /\ CallReads
    /\ blocks' = checkOverlapBlocks(blocks, id, position)
    /\ pendingCombination' = checkOverlap(blocksRef, id, position)
    /\ last' = Op("checkOverlap", id, [ret |-> pendingCombination' # Null])
    /\ UNCHANGED <<blocksRef, zeroBlocks, subtractMenu, timers, drags, nextId, win>>

CallFinalizeCombine(id, position) ==
    /\ CallMutates
    /\ LET r == finalizeCombine(blocksRef, blocks, win, id, position, nextId)
       IN  /\ blocks' = r.blocks
           /\ nextId' = IF r.ret THEN nextId + 1 ELSE nextId
           /\ last' = Op("finalizeCombine", id, r)
    /\ pendingCombination' = Null
    /\ UNCHANGED <<blocksRef, zeroBlocks, subtractMenu, timers, drags, win>>

CallSplitBlock(id, subtractValue) ==
    /\ CallMutates
    /\ LET r == splitBlock(blocksRef, blocks, win, id, subtractValue, nextId, nextId + 1)
       IN  /\ blocks' = r.blocks
           /\ nextId' = IF r.ret THEN nextId + 2 ELSE nextId
           /\ last' = Op("splitBlock", id, r)
    /\ UNCHANGED <<blocksRef, pendingCombination, zeroBlocks, subtractMenu,
                   timers, drags, win>>

clearBlocks(prev) == <<>>

CallClearBlocks ==
    /\ CallMutates
    /\ blocks' = clearBlocks(blocks)
    /\ pendingCombination' = Null
    /\ last' = Op("clearBlocks", 0, NoResult)
    /\ UNCHANGED <<blocksRef, zeroBlocks, subtractMenu, timers, drags, nextId, win>>

StoreNext ==
    \/ Render
    \/ CallClearBlocks
    \/ \E v \in StoreValues, p \in StorePositions : CallAddBlock(v, p)
    \/ \E id \in StoreIds : CallRemoveBlock(id)
    \/ \E id \in StoreIds, p \in StorePositions : CallUpdateBlockPosition(id, p)
    \/ \E id \in StoreIds : CallStartDragging(id)
    \/ \E id \in StoreIds : CallStopDragging(id)
    \/ \E id \in StoreIds, p \in StorePositions : CallCheckOverlap(id, p)
    \/ \E id \in StoreIds, p \in StorePositions : CallFinalizeCombine(id, p)
    \/ \E id \in StoreIds, k \in StoreAmounts : CallSplitBlock(id, k)

SpecStore == StoreInit /\ [][StoreNext]_vars

(***************************************************************************)
(* C12: addBlock called with a negative value is rejected and leaves the   *)
(* store as it was, and no block of the store ever has a negative value.   *)
(***************************************************************************)
C12_InvalidValueRejected ==
    [][ \A v \in StoreValues, p \in StorePositions :
          (CallAddBlock(v, p) /\ v < 0)
            => /\ blocks' = blocks
               /\ \A i \in 1..Len(blocks') : blocks'[i].value >= 0 ]_vars

(***************************************************************************)
(* C13: a drag-move or drag-end event (drop on the canvas or on the trash  *)
(* can) for a block that is no longer in the store leaves the block list   *)
(* unchanged: removeBlock, updateBlockPosition, startDragging and          *)
(* stopDragging do nothing for an id that is not in the store, and         *)
(* removing twice is removing once.                                        *)
(***************************************************************************)
C13_ConsumedBlockEvents ==
    [][ \A id \in drags :
          id \notin Ids(blocks) =>
            /\ removeBlock(blocks, id) = blocks
            /\ startDragging(blocks, id) = blocks
            /\ stopDragging(blocks, id) = blocks
            /\ removeBlock(removeBlock(blocksRef, id), id) = removeBlock(blocksRef, id)
            /\ \A p \in DragPositions :
                 /\ updateBlockPosition(blocks, id, p) = blocks
                 /\ (handleDrag(id, p, TRUE) \/ handleDrag(id, p, FALSE)
                       \/ handleDragEnd(id, p) \/ handleDragEndTrash(id))
                      => blocks' = blocks ]_vars

(***************************************************************************)
(* C14: checkOverlap, called with any id and position, leaves the block    *)
(* list as it is: no block is added, removed, moved or changed; only       *)
(* PendingCombination may change.                                          *)
(***************************************************************************)
C14_CheckOverlapFrame ==
    [][ \A id \in StoreIds, p \in StorePositions :
          CallCheckOverlap(id, p)
            => /\ blocks' = blocks
               /\ UNCHANGED <<blocksRef, zeroBlocks, nextId>> ]_vars

\* checkOverlap has just found a target for a block of the store
C14_Witness ==
    /\ last.op = "checkOverlap"
    /\ last.ret = TRUE
    /\ pendingCombination # Null
    /\ {pendingCombination.draggingId, pendingCombination.targetId} \subseteq Ids(blocks)
    /\ pendingCombination.draggingId # pendingCombination.targetId

\* indices of the store blocks, other than id and not being dragged, that
\* the box of id placed at position p overlaps
PreviewHits(id, p) ==
    {i \in 1..Len(blocks) :
        /\ blocks[i].id # id
        /\ ~blocks[i].isDragging
        /\ boxesOverlap(getBoxAtPosition(ValueOf(blocks, id), p),
                        getBoxAtPosition(blocks[i].value, blocks[i].position))}

(***************************************************************************)
(* C15: checkOverlap(draggedId, position) sets PendingCombination to the   *)
(* dragged id and the first block in store order, other than the dragged   *)
(* block and not being dragged itself, whose box overlaps the box of the   *)
(* dragged block at the position; it sets it to absent when there is no    *)
(* such block and when the dragged id is not in the store.                 *)
(***************************************************************************)
C15_PreviewTarget ==
    [][ \A id \in StoreIds, p \in StorePositions :
          CallCheckOverlap(id, p)
            => IF id \notin Ids(blocks) \/ PreviewHits(id, p) = {}
                 THEN pendingCombination' = Null
                 ELSE /\ pendingCombination' # Null
                      /\ pendingCombination'.draggingId = id
                      /\ \E i \in PreviewHits(id, p) :
                           /\ \A j \in PreviewHits(id, p) : i <= j
                           /\ pendingCombination'.targetId = blocks[i].id ]_vars

(***************************************************************************)
(* C16: PendingCombination is absent after every drag end, whether the     *)
(* drop merged, did not merge or went to the trash; it is present only     *)
(* while the block it names as dragged is in a drag.                       *)
(***************************************************************************)
C16_PendingClearedAtDragEnd ==
    [][ /\ \A id \in drags :
             (handleDragEndTrash(id) \/ \E p \in DragPositions : handleDragEnd(id, p))
               => pendingCombination' = Null
        /\ pendingCombination' # Null => pendingCombination'.draggingId \in drags' ]_vars

(***************************************************************************)
(* C17: a drop on the trash removes exactly the dragged block and runs no  *)
(* merge: no block is added, every other block stays as it was, the zero   *)
(* blocks are untouched and the total value decreases by the value of the  *)
(* removed block.                                                          *)
(***************************************************************************)
C17_TrashDrop ==
    [][ \A id \in drags :
          handleDragEndTrash(id)
            => IF id \in Ids(blocks)
                 THEN /\ Removed = {id}
                      /\ Added = {}
                      /\ OthersUnchanged({id})
                      /\ Len(blocks') = Len(blocks) - 1
                      /\ SumValues(blocks') = SumValues(blocks) - ValueOf(blocks, id)
                      /\ zeroBlocks' = zeroBlocks
                 ELSE blocks' = blocks /\ zeroBlocks' = zeroBlocks ]_vars

\* a block dropped on the trash while the preview had it over another block:
\* the other block is still in the store
C17_Witness ==
    /\ last.op = "trash"
    /\ last.id \notin Ids(blocks)
    /\ pendingCombination # Null
    /\ pendingCombination.draggingId = last.id
    /\ pendingCombination.targetId \in Ids(blocks)

(***************************************************************************)
(* C18: the value of a block never changes while its id is in the store:   *)
(* a block that is in the store before and after a step has the same value *)
(* after it, whatever the step (spawn, drag, drop, merge, split, sneeze,   *)
(* trash).                                                                 *)
(***************************************************************************)
C18_ValueImmutable ==
    [][ \A i \in 1..Len(blocks) : \A j \in 1..Len(blocks') :
          blocks'[j].id = blocks[i].id => blocks'[j].value = blocks[i].value ]_vars

\* a block of value above 1 that was dragged away and dropped without a merge
C18_Witness ==
    /\ last.op = "dragEnd"
    /\ ~last.ret
    /\ \E i \in 1..Len(blocks) :
         /\ blocks[i].id = last.id
         /\ blocks[i].value > 1
         /\ blocks[i].position \in DragPositions
         /\ ~blocks[i].isDragging

\* the point lies on a number block of the list on screen, the list the drag
\* end handler of the zero block was rendered with
OnRenderedBlock(point) ==
    \E i \in 1..Len(blocksRef) :
        LET box == getBoxAtPosition(blocksRef[i].value, blocksRef[i].position)
        IN  /\ box.x <= point.x /\ point.x <= box.x + box.width
            /\ box.y <= point.y /\ point.y <= box.y + box.height

C20_MergedWithinCanvas ==
    [][ \A id \in StoreIds, p \in StorePositions :
          (CallFinalizeCombine(id, p) /\ last'.ret)
            => \A j \in 1..Len(blocks') :
                 blocks'[j].id \in Added =>
                   LET box == getBoxAtPosition(blocks'[j].value, blocks'[j].position)
                   IN  /\ box.x >= 0
                       /\ box.y >= 0
                       /\ box.x + box.width <= Px(win.width)
                       /\ box.y + box.height <= Px(win.height) ]_vars

(***************************************************************************)
(* Split placement: one block on canvases of several sizes, split through  *)
(* the hook                                                                *)
(***************************************************************************)
PlaceWindows ==
    {[width |-> 1024, height |-> 768],
     [width |-> 600, height |-> 1200],
     [width |-> 600, height |-> 700]}
PlaceValues == {30, 110}
PlacePositions == {Pos(100, 100), Pos(900, 700)}
PlaceAmounts == {1, 10, 100}

PlaceInit ==
    /\ \E v \in PlaceValues, p \in PlacePositions :
         /\ blocks = <<NewBlock(1, v, p)>>
         /\ blocksRef = blocks
    /\ pendingCombination = Null
    /\ zeroBlocks = <<>>
    /\ subtractMenu = Null
    /\ timers = <<>>
    /\ drags = {}
    /\ nextId = 2
    /\ win \in PlaceWindows
    /\ stale = 0
    /\ steps = 0
    /\ last = Op("init", 0, NoResult)
    /\ ClockOff

PlaceNext ==
    \/ Render
    \/ \E id \in StoreIds, k \in PlaceAmounts : CallSplitBlock(id, k)

SpecPlace == PlaceInit /\ [][PlaceNext]_vars

\* the box of block b lies within the canvas
WithinCanvas(b) ==
    LET box == getBoxAtPosition(b.value, b.position)
    IN  /\ box.x >= 0
        /\ box.y >= 0
        /\ box.x + box.width <= Px(win.width)
        /\ box.y + box.height <= Px(win.height)

(***************************************************************************)
(* C21: both blocks created by an accepted splitBlock lie fully within the *)
(* canvas (x >= 0, y >= 0, x + width <= canvas width, y + height <= canvas *)
(* height), for every canvas size, source position and amount, in each of  *)
(* the three arrangements.                                                 *)
(***************************************************************************)
C21_SplitWithinCanvas ==
    [][ \A id \in StoreIds, k \in PlaceAmounts :
          (CallSplitBlock(id, k) /\ last'.ret)
            => \A j \in 1..Len(blocks') :
                 blocks'[j].id \in Added => WithinCanvas(blocks'[j]) ]_vars

(***************************************************************************)
(* Store order: three blocks on the canvas, the first and the third        *)
(* overlapping, then creations, merges and splits through the hook         *)
(***************************************************************************)
OrderValues == {14, 15}
OrderPositions == <<Pos(100, 100), Pos(600, 400), Pos(130, 100)>>

OrderInit ==
    /\ \E v1 \in OrderValues, v2 \in OrderValues, v3 \in OrderValues :
         /\ blocks = <<NewBlock(1, v1, OrderPositions[1]),
                       NewBlock(2, v2, OrderPositions[2]),
                       NewBlock(3, v3, OrderPositions[3])>>
         /\ blocksRef = blocks
    /\ pendingCombination = Null
    /\ zeroBlocks = <<>>
    /\ subtractMenu = Null
    /\ timers = <<>>
    /\ drags = {}
    /\ nextId = 4
    /\ win \in WindowSizes
    /\ stale = 0
    /\ steps = 0
    /\ last = Op("init", 0, NoResult)
    /\ ClockOff

OrderAmounts == {1, 15}

OrderNext ==
    \/ Render
    \/ /\ steps < MaxOrderCalls
       /\ \/ \E v \in OrderValues, p \in StorePositions : CallAddBlock(v, p)
          \/ \E id \in StoreIds, p \in StorePositions : CallFinalizeCombine(id, p)
          \/ \E id \in StoreIds, k \in OrderAmounts : CallSplitBlock(id, k)

SpecOrder == OrderInit /\ [][OrderNext]_vars

\* the blocks of the store that are not among the sources, in store order
NonSources(srcs) == LET Keep(b) == b.id \notin srcs IN SelectSeq(blocks, Keep)

\* after the step the store is the given blocks, unchanged and in this order,
\* followed by n blocks
KeptThenNew(kept, n) ==
    /\ Len(blocks') = Len(kept) + n
    /\ SubSeq(blocks', 1, Len(kept)) = kept

(***************************************************************************)
(* C22: store order.  A creation appends the block at the tail.  A merge   *)
(* or a split keeps every block that is not a source, unchanged (id,       *)
(* value, position, flag) and in the same relative order, and appends the  *)
(* new block or blocks after them at the tail; for a split the block of    *)
(* the remaining value comes first, then the block of the subtracted       *)
(* value.                                                                  *)
(***************************************************************************)
C22_StoreOrder ==
    [][ /\ \A v \in OrderValues, p \in StorePositions :
             CallAddBlock(v, p)
               => /\ KeptThenNew(blocks, 1)
                  /\ blocks'[Len(blocks')] =
                       [id |-> nextId, value |-> v, position |-> p, isDragging |-> FALSE]
        /\ \A id \in StoreIds, p \in StorePositions :
             (CallFinalizeCombine(id, p) /\ last'.ret)
               => \E t \in Ids(blocksRef) \ {id} :
                    /\ KeptThenNew(NonSources({id, t}), 1)
                    /\ blocks'[Len(blocks')].id = nextId
                    /\ blocks'[Len(blocks')].value =
                         ValueOf(blocksRef, id) + ValueOf(blocksRef, t)
        /\ \A id \in StoreIds, k \in OrderAmounts :
             (CallSplitBlock(id, k) /\ last'.ret)
               => /\ KeptThenNew(NonSources({id}), 2)
                  /\ blocks'[Len(blocks') - 1].id = nextId
                  /\ blocks'[Len(blocks') - 1].value = ValueOf(blocksRef, id) - k
                  /\ blocks'[Len(blocks')].id = nextId + 1
                  /\ blocks'[Len(blocks')].value = k ]_vars

\* a merge of the first and the third block of the store has left the second
\* at the head, where it was, and put the sum at the tail
C22_Witness ==
    /\ last.op = "finalizeCombine"
    /\ last.ret
    /\ Len(blocks) = 2
    /\ blocks[1] = NewBlock(2, blocks[1].value, OrderPositions[2])
    /\ blocks[2].id = nextId - 1
    /\ blocks[2].value > blocks[1].value

(***************************************************************************)
(* C23: read-after-write.  Every split, merge and overlap check decides on *)
(* the store as it is when the call is made: a split is accepted exactly   *)
(* when the id is in the store and the amount is in range, a merge or a    *)
(* preview is found exactly when the dragged block is in the store and     *)
(* overlaps another block of the store; a call for an id that an earlier   *)
(* call removed returns false and creates nothing.                         *)
(***************************************************************************)
C23_ReadAfterWrite ==
    [][ \A id \in StoreIds :
          /\ \A k \in StoreAmounts :
               CallSplitBlock(id, k)
                 => /\ last'.ret <=> SplitAccepted(blocks, id, k)
                    /\ id \notin Ids(blocks) => blocks' = blocks
          /\ \A p \in StorePositions :
               /\ CallFinalizeCombine(id, p)
                    => /\ last'.ret <=> (id \in Ids(blocks) /\ StoreHits(id, p) # {})
                       /\ id \notin Ids(blocks) => blocks' = blocks
               /\ CallCheckOverlap(id, p)
                    => (pendingCombination' # Null
                          <=> (id \in Ids(blocks) /\ StoreHits(id, p) # {})) ]_vars

\* a step that combines values: a block leaves the store and a block of a
\* larger value enters it
CombineStep ==
    \E a \in Added, r \in Removed : ValueOf(blocks', a) > ValueOf(blocks, r)

\* handleSpawn has merged the spawned value v into the block it was put on
SpawnMerge(v) ==
    /\ last'.ret
    /\ Added = {nextId}
    /\ \E r \in Ids(blocksRef) :
         /\ Removed = {r}
         /\ ValueOf(blocks', nextId) = v + ValueOf(blocks, r)

(***************************************************************************)
(* C24 as stated: values combine only through the drag-end merge protocol; *)
(* no other operation removes a block and puts a block of a sum in its     *)
(* place.                                                                  *)
(***************************************************************************)
C24_OnlyDragEndCombines ==
    [][ CombineStep
          => \E id \in drags, p \in DragPositions : handleDragEnd(id, p) ]_vars

(***************************************************************************)
(* C24 amended: values combine through the drag-end merge protocol and     *)
(* through a spawn on top of a block on screen, which removes that block   *)
(* and adds one block of the spawned value plus the block's value; no      *)
(* other operation (drag move, split, sneeze, trash, zero block drop)      *)
(* combines values.                                                        *)
(***************************************************************************)
C24_DragEndOrSpawnCombines ==
    [][ CombineStep
          => \/ \E id \in drags, p \in DragPositions : handleDragEnd(id, p)
             \/ \E v \in SpawnValues, p \in SpawnPositions :
                  handleSpawn(v, p) /\ SpawnMerge(v) ]_vars

\* a value was spawned on the only block of the canvas: one block is left,
\* of a value larger than any the mirror offers
C24_Witness ==
    /\ last.op = "spawn"
    /\ last.ret
    /\ Len(blocks) = 1
    /\ blocks[1].id = last.id
    /\ \A v \in SpawnValues : blocks[1].value > v

\* indices of the blocks of the list the hook reads, other than id, that the
\* box of id placed at the drop position p overlaps
DropHits(id, p) ==
    {i \in 1..Len(blocksRef) :
        /\ blocksRef[i].id # id
        /\ boxesOverlap(getBoxAtPosition(ValueOf(blocksRef, id), p),
                        getBoxAtPosition(blocksRef[i].value, blocksRef[i].position))}

\* the drag end of id at p has merged it with the block at index c of that list
DropMerged(id, c) ==
    /\ last'.ret
    /\ Added = {nextId}
    /\ Removed \subseteq {id, blocksRef[c].id}
    /\ ValueOf(blocks', nextId) = ValueOf(blocksRef, id) + blocksRef[c].value
    /\ OthersUnchanged({id, blocksRef[c].id})

(***************************************************************************)
(* C25: the outcome of a drag end does not depend on the preview.          *)
(* Whatever PendingCombination holds when the block is dropped (absent     *)
(* because no overlap check ran, or naming a target sampled at an earlier  *)
(* position), the block list after the drag end is the one given by an     *)
(* overlap computation at the drop position: a merge with the first block  *)
(* that overlaps there, or no merge and the block put down there.          *)
(***************************************************************************)
C25_DropIgnoresPreview ==
    [][ \A id \in drags, p \in DragPositions :
          handleDragEnd(id, p)
            => IF id \in Ids(blocksRef) /\ DropHits(id, p) # {}
                 THEN \E c \in DropHits(id, p) :
                        /\ \A j \in DropHits(id, p) : c <= j
                        /\ DropMerged(id, c)
                 ELSE /\ ~last'.ret
                      /\ blocks' = stopDragging(updateBlockPosition(blocks, id, p), id) ]_vars

\* the preview announced a merge, the block was dropped elsewhere and nothing
\* was merged
C25_Witness ==
    /\ last.op = "dragEnd"
    /\ last.preview
    /\ ~last.ret
    /\ \E i \in 1..Len(blocks) :
         /\ blocks[i].id = last.id
         /\ blocks[i].position \in DragPositions

(***************************************************************************)
(* Cooldown of new blocks (NumberBlock component): blocks are created      *)
(* through the hook with their createdAt stamp, React mounts a component   *)
(* for each, the clock advances, effects and timeouts run                  *)
(***************************************************************************)
CoolValues == {2}
CoolAmounts == {1}
CoolPositions == {Pos(100, 100)}
CoolIds == 1..(2 * MaxCoolCalls + 2)
NoTimer == -1

\* createdAt: Date.now() of the new blocks
Stamp(ids) ==
    [id \in DOMAIN createdAt \cup ids |->
        IF id \in DOMAIN createdAt THEN createdAt[id] ELSE now]

\* React has rendered the store
Rendered == blocksRef = blocks /\ DOMAIN components = Ids(blocks)

\* a call of the hook that creates blocks (calls that return false are left
\* out), made from the rendered page, early enough for the cooldown to end
\* before the clock stops
CoolCall ==
    /\ Rendered
    /\ steps < MaxCoolCalls /\ steps' = steps + 1
    /\ now + BLOCK_COOLDOWN_MS <= MaxTicks * TickMs
    /\ UNCHANGED <<stale, now, components>>

\* two blocks have just been added to the store, one upon the other, and
\* React has not rendered them yet
CoolInit ==
    /\ blocks = addBlock(addBlock(<<>>, 1, 2, Pos(100, 100)), 2, 2, Pos(100, 100))
    /\ blocksRef = <<>>
    /\ pendingCombination = Null
    /\ zeroBlocks = <<>>
    /\ subtractMenu = Null
    /\ timers = <<>>
    /\ drags = {}
    /\ nextId = 3
    /\ win \in WindowSizes
    /\ stale = 0
    /\ steps = 0
    /\ last = Op("addBlock", 2, [ret |-> TRUE])
    /\ now = 0
    /\ createdAt = [id \in {1, 2} |-> 0]
    /\ components = <<>>

CoolAddBlock(value, position) ==
    /\ CoolCall
    /\ blocks' = addBlock(blocks, nextId, value, position)
    /\ createdAt' = Stamp({nextId})
    /\ nextId' = nextId + 1
    /\ last' = Op("addBlock", nextId, [ret |-> TRUE])
    /\ UNCHANGED <<blocksRef, pendingCombination, zeroBlocks, subtractMenu,
                   timers, drags, win>>

CoolFinalizeCombine(id, position) ==
    /\ CoolCall
    /\ LET r == finalizeCombine(blocksRef, blocks, win, id, position, nextId)
       IN  /\ r.ret
           /\ blocks' = r.blocks
           /\ createdAt' = Stamp(r.news)
           /\ nextId' = nextId + 1
           /\ last' = Op("finalizeCombine", id, r)
    /\ pendingCombination' = Null
    /\ UNCHANGED <<blocksRef, zeroBlocks, subtractMenu, timers, drags, win>>

CoolSplitBlock(id, subtractValue) ==
    /\ CoolCall
    /\ LET r == splitBlock(blocksRef, blocks, win, id, subtractValue, nextId, nextId + 1)
       IN  /\ r.ret
           /\ blocks' = r.blocks
           /\ createdAt' = Stamp(r.news)
           /\ nextId' = nextId + 2
           /\ last' = Op("splitBlock", id, r)
    /\ UNCHANGED <<blocksRef, pendingCombination, zeroBlocks, subtractMenu,
                   timers, drags, win>>

\* faulty variant: a new component starts out of cooldown
InitialCooldownOff(t, created) == FALSE

\* the initial state of isInCooldown
InitialCooldown(t, created) == t - created < BLOCK_COOLDOWN_MS

\* a component at its first render; its effect has yet to run
Mount(id) ==
    [isInCooldown |-> InitialCooldown(now, createdAt[id]),
     effect |-> TRUE,
     timer |-> NoTimer]

\* React renders: the ref is refreshed, a component is mounted for every new
\* block and the components of removed blocks are unmounted (their timeout
\* is cleared)
CoolRender ==
    /\ ~Rendered
    /\ blocksRef' = blocks
    /\ components' = [id \in Ids(blocks) |->
                        IF id \in DOMAIN components THEN components[id] ELSE Mount(id)]
    /\ UNCHANGED <<blocks, pendingCombination, zeroBlocks, subtractMenu, timers,
                   drags, nextId, win, stale, steps, last, now, createdAt>>

\* the effect of a component, run after its mount and after isInCooldown changed
CooldownEffect(id) ==
    /\ id \in DOMAIN components
    /\ components[id].effect
    /\ LET c == components[id]
           remaining == BLOCK_COOLDOWN_MS - (now - createdAt[id])
       IN  components' = [components EXCEPT ![id] =
             IF ~c.isInCooldown
               THEN [c EXCEPT !.effect = FALSE, !.timer = NoTimer]
             ELSE IF remaining <= 0
               THEN [c EXCEPT !.isInCooldown = FALSE]
             ELSE [c EXCEPT !.effect = FALSE, !.timer = now + remaining]]
    /\ UNCHANGED <<blocks, blocksRef, pendingCombination, zeroBlocks, subtractMenu,
                   timers, drags, nextId, win, stale, steps, last, now, createdAt>>

\* the timeout of a component fires, at its time or later; the effect runs
\* again, its cleanup first
CooldownTimer(id) ==
    /\ id \in DOMAIN components
    /\ components[id].isInCooldown
    /\ components[id].timer # NoTimer
    /\ now >= components[id].timer
    /\ components' = [components EXCEPT ![id] =
                        [@ EXCEPT !.isInCooldown = FALSE, !.effect = TRUE]]
    /\ UNCHANGED <<blocks, blocksRef, pendingCombination, zeroBlocks, subtractMenu,
                   timers, drags, nextId, win, stale, steps, last, now, createdAt>>

Tick ==
    /\ now + TickMs <= MaxTicks * TickMs
    /\ now' = now + TickMs
    /\ UNCHANGED <<blocks, blocksRef, pendingCombination, zeroBlocks, subtractMenu,
                   timers, drags, nextId, win, stale, steps, last, createdAt,
                   components>>

\* the block takes pointer events (pointer-events-auto)
Draggable(id) == id \in DOMAIN components /\ ~components[id].isInCooldown

\* the one pointer goes down on a block on screen and starts a drag
PointerDragStart(id) ==
    /\ drags = {}
    /\ Draggable(id)
    /\ handleDragStart(id)

\* React runs the pending effects
CooldownEffects == \E id \in CoolIds : CooldownEffect(id)

\* the browser fires the timeouts that are due
CooldownTimers == \E id \in CoolIds : CooldownTimer(id)

CoolNext ==
    \/ CoolRender
    \/ Tick
    \/ \E v \in CoolValues, p \in CoolPositions : CoolAddBlock(v, p)
    \/ \E id \in CoolIds, p \in CoolPositions : CoolFinalizeCombine(id, p)
    \/ \E id \in CoolIds, k \in CoolAmounts : CoolSplitBlock(id, k)
    \/ CooldownEffects
    \/ CooldownTimers
    \/ \E id \in CoolIds : PointerDragStart(id)

SpecCooldown == CoolInit /\ [][CoolNext]_vars

\* React renders, effects run, timeouts fire and time passes
FairCooldown ==
    /\ SpecCooldown
    /\ WF_vars(CoolRender)
    /\ WF_vars(Tick)
    /\ WF_vars(CooldownEffects)
    /\ WF_vars(CooldownTimers)

\* the cooldown of block id has elapsed
CooldownElapsed(id) == now - createdAt[id] >= BLOCK_COOLDOWN_MS

(***************************************************************************)
(* C26: a new block (from a creation, a merge or a split) takes no pointer *)
(* input, so no drag can start on it, before its cooldown after createdAt  *)
(* has elapsed; and the cooldown ends: from some moment on every block of  *)
(* the store takes pointer input.                                          *)
(***************************************************************************)
C26_Cooldown ==
    /\ [](\A id \in DOMAIN components : Draggable(id) => CooldownElapsed(id))
    /\ [][ \A id \in CoolIds : PointerDragStart(id) => CooldownElapsed(id) ]_vars
    /\ <>[](\A id \in Ids(blocks) : Draggable(id))

\* a block made by a split after time 0 is being dragged, the drag having
\* started the moment its cooldown ended
C26_Witness ==
    /\ last.op = "splitBlock"
    /\ last.ret
    /\ \E id \in drags :
         /\ id \in {nextId - 2, nextId - 1}
         /\ id \in Ids(blocks)
         /\ id \in DOMAIN components
         /\ createdAt[id] > 0
         /\ now - createdAt[id] = BLOCK_COOLDOWN_MS

(***************************************************************************)
(* boxesOverlap on arbitrary boxes: two boxes are drawn, zero-sized ones   *)
(* included, and the function is applied to them in both orders            *)
(***************************************************************************)
BoxCoords == 0..MaxCoord

Boxes == [x : BoxCoords, y : BoxCoords, width : BoxCoords, height : BoxCoords]

BoxesInit ==
    /\ blocks = <<>>
    /\ blocksRef = <<>>
    /\ pendingCombination = Null
    /\ zeroBlocks = <<>>
    /\ subtractMenu = Null
    /\ timers = <<>>
    /\ drags = {}
    /\ nextId = 1
    /\ win \in WindowSizes
    /\ stale = 0
    /\ steps = 0
    /\ \E a \in Boxes, b \in Boxes : last = [op |-> "boxes", a |-> a, b |-> b]
    /\ ClockOff

CallBoxesOverlap ==
    /\ last.op = "boxes"
    /\ last' = [op |-> "boxesOverlap", a |-> last.a, b |-> last.b,
                ab |-> boxesOverlap(last.a, last.b),
                ba |-> boxesOverlap(last.b, last.a)]
    /\ UNCHANGED <<blocks, blocksRef, pendingCombination, zeroBlocks, subtractMenu,
                   timers, drags, nextId, win, stale, steps>>
    /\ ClockUnchanged

BoxesNext == CallBoxesOverlap

SpecBoxes == BoxesInit /\ [][BoxesNext]_vars

(***************************************************************************)
(* C27: boxesOverlap is symmetric: for all boxes a and b, zero-sized ones  *)
(* included, boxesOverlap(a, b) = boxesOverlap(b, a).                      *)
(***************************************************************************)
C27_OverlapSymmetric ==
    last.op = "boxesOverlap" => last.ab = last.ba

\* a zero-sized box strictly inside another one overlaps it, in both orders
C27_Witness ==
    /\ last.op = "boxesOverlap"
    /\ last.a.width = 0 /\ last.a.height = 0
    /\ last.b.width > 0 /\ last.b.height > 0
    /\ last.ab /\ last.ba

(***************************************************************************)
(* Drops next to a block: two one-cube blocks (48 x 48) are in the store   *)
(* and rendered; the hook moves them and drops them at positions where the *)
(* boxes share an edge, share a corner, or overlap by one pixel            *)
(***************************************************************************)
TouchPositions == {Pos(100, 100), Pos(148, 100), Pos(148, 148), Pos(147, 100)}

TouchInit ==
    /\ blocks = addBlock(addBlock(<<>>, 1, 1, Pos(100, 100)), 2, 1, Pos(300, 300))
    /\ blocksRef = blocks
    /\ pendingCombination = Null
    /\ zeroBlocks = <<>>
    /\ subtractMenu = Null
    /\ timers = <<>>
    /\ drags = {}
    /\ nextId = 3
    /\ win \in WindowSizes
    /\ stale = 0
    /\ steps = 0
    /\ last = Op("addBlock", 2, [ret |-> TRUE])
    /\ ClockOff

TouchNext ==
    \/ Render
    \/ \E v \in {1}, p \in TouchPositions : CallAddBlock(v, p)
    \/ \E id \in StoreIds, p \in TouchPositions : CallUpdateBlockPosition(id, p)
    \/ \E id \in StoreIds, p \in TouchPositions : CallFinalizeCombine(id, p)

SpecTouch == TouchInit /\ [][TouchNext]_vars

\* the open rectangles of a and b have a point in common
OpenIntersect(a, b) ==
    /\ a.width > 0 /\ a.height > 0 /\ b.width > 0 /\ b.height > 0
    /\ Max(a.x, b.x) < Min(a.x + a.width, b.x + b.width)
    /\ Max(a.y, b.y) < Min(a.y + a.height, b.y + b.height)

\* the closed rectangles of a and b meet, in an edge or a corner only
OnlyTouch(a, b) ==
    /\ ~OpenIntersect(a, b)
    /\ Max(a.x, b.x) <= Min(a.x + a.width, b.x + b.width)
    /\ Max(a.y, b.y) <= Min(a.y + a.height, b.y + b.height)

\* the box of store block id dropped at p, and the box of the i-th store block
DropBox(id, p) == getBoxAtPosition(ValueOf(blocks, id), p)

StoreBox(i) == getBoxAtPosition(blocks[i].value, blocks[i].position)

(***************************************************************************)
(* C28: boxes that only touch along an edge or at a corner do not overlap, *)
(* boxesOverlap being true exactly when the open rectangles intersect; so  *)
(* a block dropped edge-to-edge (or corner-to-corner) against another      *)
(* block of the store is never merged with it.                             *)
(***************************************************************************)
C28_TouchNeverMerges ==
    [][ \A id \in Ids(blocks), p \in TouchPositions :
          CallFinalizeCombine(id, p) =>
            \A i \in 1..Len(blocks) :
              /\ boxesOverlap(DropBox(id, p), StoreBox(i))
                   <=> OpenIntersect(DropBox(id, p), StoreBox(i))
              /\ (blocks[i].id # id /\ OnlyTouch(DropBox(id, p), StoreBox(i)))
                   => blocks[i].id \in Ids(blocks') ]_vars

(***************************************************************************)
(* Cube layout (NumberBlock: getSubBlockPositions, getCubePositions), in   *)
(* pixels; the k-th element is the position pushed with i = k - 1          *)
(***************************************************************************)
CubeStep == CUBE_SIZE + CUBE_GAP

\* faulty variant: one column filled from the top down
getSubBlockPositionsTopDown(count, offsetX, offsetY) ==
    [k \in 1..count |-> [x |-> offsetX, y |-> offsetY + (k - 1) * CubeStep]]

getSubBlockPositions(count, offsetX, offsetY) ==
    IF count = 0 THEN <<>>
    ELSE IF count = 4
      THEN [k \in 1..4 |->
              [x |-> offsetX + ((k - 1) % 2) * CubeStep,
               y |-> offsetY + (1 - ((k - 1) \div 2)) * CubeStep]]
    ELSE IF count = 7
      THEN [k \in 1..count |->
              [x |-> offsetX,
               y |-> offsetY + (count - 1 - (k - 1)) * CubeStep]]
    ELSE IF count = 9
      THEN [k \in 1..9 |->
              [x |-> offsetX + ((k - 1) % 3) * CubeStep,
               y |-> offsetY + (2 - ((k - 1) \div 3)) * CubeStep]]
    ELSE IF count <= 5
      THEN [k \in 1..count |->
              [x |-> offsetX,
               y |-> offsetY + (count - 1 - (k - 1)) * CubeStep]]
    ELSE LET cols == IF count >= 30 THEN count \div 10 ELSE 2
             rows == Ceil(count, cols)
         IN  [k \in 1..count |->
                [x |-> offsetX + ((k - 1) % cols) * CubeStep,
                 y |-> offsetY + (rows - 1 - ((k - 1) \div cols)) * CubeStep]]

\* the cubes of the hundred-squares
HundredCubes(hundreds) ==
    LET hundredSquareSize == 10 * CUBE_SIZE + 9 * CUBE_GAP
        hundredSquareSpacing == hundredSquareSize + CUBE_GAP * 2
        hundredCols == IF hundreds >= 7 THEN 3 ELSE IF hundreds >= 4 THEN 2 ELSE 1
        hundredRows == Ceil(hundreds, hundredCols)
    IN  [k \in 1..(hundreds * 100) |->
           [x |-> (((k - 1) \div 100) % hundredCols) * hundredSquareSpacing
                    + (((k - 1) % 100) % 10) * CubeStep,
            y |-> (hundredRows - 1 - (((k - 1) \div 100) \div hundredCols))
                      * hundredSquareSpacing
                    + (9 - (((k - 1) % 100) \div 10)) * CubeStep]]

\* faulty variant: the remainder next to the hundred-squares is left out
getCubePositionsNoRemainder(value) ==
    IF value < 100 THEN getSubBlockPositions(value, 0, 0)
    ELSE HundredCubes(value \div 100)

getCubePositions(value) ==
    IF value < 100 THEN getSubBlockPositions(value, 0, 0)
    ELSE LET hundreds == value \div 100
             tensAndUnits == value % 100
             hundredSquareSize == 10 * CUBE_SIZE + 9 * CUBE_GAP
             hundredSquareSpacing == hundredSquareSize + CUBE_GAP * 2
             hundredCols == IF hundreds >= 7 THEN 3 ELSE IF hundreds >= 4 THEN 2 ELSE 1
             remainderOffsetX == hundredCols * hundredSquareSpacing + CUBE_GAP * 2
         IN  IF tensAndUnits > 0
               THEN HundredCubes(hundreds)
                      \o getSubBlockPositions(tensAndUnits, remainderOffsetX, 0)
               ELSE HundredCubes(hundreds)

(***************************************************************************)
(* The face cube (NumberBlock: topCubeIndex); indices count from 0 as in   *)
(* the source, arr[i] is the (i + 1)-th element                            *)
(***************************************************************************)
\* faulty variant: on equal y the rightmost cube is preferred
TopStepRightmost(arr, minIdx, idx) ==
    IF arr[idx + 1].y < arr[minIdx + 1].y THEN idx
    ELSE IF arr[idx + 1].y > arr[minIdx + 1].y THEN minIdx
    ELSE IF arr[idx + 1].x > arr[minIdx + 1].x THEN idx
    ELSE minIdx

\* the callback of the reduce
TopStep(arr, minIdx, idx) ==
    IF arr[idx + 1].y < arr[minIdx + 1].y THEN idx
    ELSE IF arr[idx + 1].y > arr[minIdx + 1].y THEN minIdx
    ELSE IF arr[idx + 1].x < arr[minIdx + 1].x THEN idx
    ELSE minIdx

\* the reduce is evaluated in runs of ReduceRun elements, which keeps the
\* recursion shallow; the elements are visited in index order all the same
ReduceRun == 50

RECURSIVE ReduceTop(_, _, _, _)
\* Array.prototype.reduce over the indices idx..(stop - 1), with accumulator
\* minIdx (an index, so never negative)
ReduceTop(arr, minIdx, idx, stop) ==
    IF idx >= stop \/ minIdx < 0 THEN minIdx
    ELSE ReduceTop(arr, TopStep(arr, minIdx, idx), idx + 1, stop)

RECURSIVE ReduceTopRuns(_, _, _)
ReduceTopRuns(arr, minIdx, idx) ==
    IF idx >= Len(arr) \/ minIdx < 0 THEN minIdx
    ELSE ReduceTopRuns(arr,
                       ReduceTop(arr, minIdx, idx, Min(idx + ReduceRun, Len(arr))),
                       idx + ReduceRun)

topCubeIndex(cubePositions) == ReduceTopRuns(cubePositions, 0, 0)

(***************************************************************************)
(* One block of any value up to MaxLayoutValue is in the store; React      *)
(* renders its NumberBlock, which computes its dimensions and the          *)
(* positions of its cubes                                                  *)
(***************************************************************************)
LayoutInit ==
    /\ \E v \in 0..MaxLayoutValue :
         /\ blocks = <<NewBlock(1, v, Pos(100, 100))>>
         /\ blocksRef = blocks
    /\ pendingCombination = Null
    /\ zeroBlocks = <<>>
    /\ subtractMenu = Null
    /\ timers = <<>>
    /\ drags = {}
    /\ nextId = 2
    /\ win \in WindowSizes
    /\ stale = 0
    /\ steps = 0
    /\ last = Op("addBlock", 1, [ret |-> TRUE])
    /\ ClockOff

RenderNumberBlock(id) ==
    /\ id \in Ids(blocksRef)
    /\ id \notin DOMAIN components
    /\ components' = [i \in {id} |->
                        [value |-> ValueOf(blocksRef, id),
                         dimensions |-> getBlockDimensions(ValueOf(blocksRef, id)),
                         cubePositions |-> getCubePositions(ValueOf(blocksRef, id)),
                         topCubeIndex |->
                           topCubeIndex(getCubePositions(ValueOf(blocksRef, id)))]]
    /\ UNCHANGED <<blocks, blocksRef, pendingCombination, zeroBlocks, subtractMenu,
                   timers, drags, nextId, win, stale, steps, last, now, createdAt>>

LayoutNext == \E id \in Ids(blocksRef) : RenderNumberBlock(id)

SpecLayout == LayoutInit /\ [][LayoutNext]_vars

\* the cubes of a rendered NumberBlock, as a set of positions
CubeSet(c) == {c.cubePositions[k] : k \in 1..Len(c.cubePositions)}

(***************************************************************************)
(* C29: for every value v with 0 <= v < 100 getCubePositions returns       *)
(* exactly v positions, pairwise distinct; for 100 <= v <= 999 it returns  *)
(* exactly v positions too.                                                *)
(***************************************************************************)
C29_CubeCount ==
    \A id \in DOMAIN components :
        LET c == components[id] IN
        /\ (0 <= c.value /\ c.value <= 999) => Len(c.cubePositions) = c.value
        /\ (0 <= c.value /\ c.value < 100) => Cardinality(CubeSet(c)) = c.value

\* a block with hundred-squares and a remainder is rendered, a cube each
C29_Witness ==
    \E id \in DOMAIN components :
        /\ components[id].value = 234
        /\ Len(components[id].cubePositions) = 234

(***************************************************************************)
(* C30: for every value v >= 1 the size returned by getBlockDimensions(v)  *)
(* is the union bounding box of the cubes of getCubePositions(v): every    *)
(* cube lies within 0..width and 0..height, and some cube reaches each of  *)
(* the four sides.                                                         *)
(***************************************************************************)
C30_DimensionsAreBoundingBox ==
    \A id \in DOMAIN components :
        LET c == components[id] IN
        c.value >= 1 =>
          /\ \A p \in CubeSet(c) :
               /\ 0 <= p.x /\ p.x + CUBE_SIZE <= c.dimensions.width
               /\ 0 <= p.y /\ p.y + CUBE_SIZE <= c.dimensions.height
          /\ \E p \in CubeSet(c) : p.x = 0
          /\ \E p \in CubeSet(c) : p.x + CUBE_SIZE = c.dimensions.width
          /\ \E p \in CubeSet(c) : p.y = 0
          /\ \E p \in CubeSet(c) : p.y + CUBE_SIZE = c.dimensions.height

\* a rendered block whose remainder (99: 9 columns, 11 rows) is taller than
\* its hundred-square: the remainder sets the height
C30_Witness ==
    \E id \in DOMAIN components :
        /\ components[id].value = 199
        /\ components[id].dimensions.height > 10 * CUBE_SIZE + 9 * CUBE_GAP
        /\ \E p \in CubeSet(components[id]) :
             p.y + CUBE_SIZE = components[id].dimensions.height

\* the cubes of the hundred-squares and of the remainder of a rendered block
HundredPart(c) ==
    {c.cubePositions[k] : k \in 1..((c.value \div 100) * 100)}

RemainderPart(c) ==
    {c.cubePositions[k] : k \in ((c.value \div 100) * 100 + 1)..Len(c.cubePositions)}

(***************************************************************************)
(* C31: for every value v >= 100 with v mod 100 > 0 the remainder cubes    *)
(* lie entirely to the right of all hundred-squares, and the remainder is  *)
(* bottom-aligned: the bottom edge of its lowest cube (max y + CUBE_SIZE)  *)
(* equals the height of the block.                                         *)
(***************************************************************************)
C31_RemainderRightAndBottom ==
    \A id \in DOMAIN components :
        LET c == components[id] IN
        (c.value >= 100 /\ c.value % 100 > 0) =>
          /\ \A r \in RemainderPart(c), h \in HundredPart(c) : r.x >= h.x + CUBE_SIZE
          /\ \E r \in RemainderPart(c) : r.y + CUBE_SIZE = c.dimensions.height

\* the indices of the cubes drawn with a face (hasFace)
FaceCubes(c) == {i \in 0..(Len(c.cubePositions) - 1) : i = c.topCubeIndex}

(***************************************************************************)
(* C32: for every value v >= 1 exactly one cube is the face cube, and it   *)
(* is the cube with the minimum y, ties broken by the minimum x: no other  *)
(* cube has a smaller y, or an equal y and a smaller x.                    *)
(***************************************************************************)
C32_FaceCube ==
    \A id \in DOMAIN components :
        LET c == components[id] IN
        c.value >= 1 =>
          /\ Cardinality(FaceCubes(c)) = 1
          /\ \A p \in CubeSet(c) :
               /\ p.y >= c.cubePositions[c.topCubeIndex + 1].y
               /\ p.y = c.cubePositions[c.topCubeIndex + 1].y
                    => p.x >= c.cubePositions[c.topCubeIndex + 1].x

\* a rendered block with hundred-squares whose face cube is neither the
\* first nor the last cube: the top-left cube of the upper hundred-square
C32_Witness ==
    \E id \in DOMAIN components :
        /\ components[id].value = 234
        /\ components[id].topCubeIndex = 190
        /\ components[id].cubePositions[191] = [x |-> 0, y |-> 0]

(***************************************************************************)
(* Colours (types: NUMBERBLOCK_COLORS, getNumberBlockColor; NumberBlock:   *)
(* NINE_GRAY_COLORS, PALE_COLORS, getDigitColor, getCubeColor,             *)
(* getCubeOutlineColor). A missing key of a table reads as Undefined; the  *)
(* outline null is NoOutline. Cube indices count from 0.                   *)
(***************************************************************************)
Undefined == "undefined"
NoOutline == "null"

NUMBERBLOCK_COLORS ==
    <<"#FF0000", "#FF8C00", "#FFD700", "#00CC00", "#00BFFF",
      "#4B0082", "#8B00FF", "#FF00FF", "#808080", "#FFFFFF">>

NINE_GRAY_COLORS ==
    <<"#D0D0D0", "#D0D0D0", "#D0D0D0", "#A0A0A0", "#A0A0A0",
      "#A0A0A0", "#606060", "#606060", "#606060">>

PALE_COLORS ==
    <<"#FFFFFF", "#FFD4A8", "#FFF4B8", "#B8F0B8", "#B8E8FF",
      "#C4A8D0", "#D8B8FF", "#FFB8FF", "#C8C8C8">>

\* table[key] of a Record<number, string>
Lookup(table, key) == IF key \in DOMAIN table THEN table[key] ELSE Undefined

\* a || b on strings: undefined is falsy
OrElse(a, b) == IF a = Undefined THEN b ELSE a

\* faulty variant: the table is read one key too low
getNumberBlockColorShifted(value) ==
    IF value <= 10 THEN Lookup(NUMBERBLOCK_COLORS, value - 1)
    ELSE Lookup(NUMBERBLOCK_COLORS, IF value % 10 = 0 THEN 10 ELSE value % 10)

getNumberBlockColor(value) ==
    IF value <= 10 THEN Lookup(NUMBERBLOCK_COLORS, value)
    ELSE Lookup(NUMBERBLOCK_COLORS, IF value % 10 = 0 THEN 10 ELSE value % 10)

\* NINE_GRAY_COLORS[i] || '#808080', with the 0-based index i
NineGray(i) == OrElse(Lookup(NINE_GRAY_COLORS, i + 1), "#808080")

\* PALE_COLORS[d] || '#FFFFFF'
Pale(d) == OrElse(Lookup(PALE_COLORS, d), "#FFFFFF")

getDigitColor(digit, indexWithinDigit, isPale) ==
    IF digit = 7
      THEN IF isPale THEN Pale(indexWithinDigit + 1)
           ELSE getNumberBlockColor(indexWithinDigit + 1)
    ELSE IF digit = 9 /\ ~isPale THEN NineGray(indexWithinDigit)
    ELSE IF isPale THEN Pale(digit) ELSE getNumberBlockColor(digit)

getCubeColor(blockValue, cubeIndex) ==
    IF blockValue <= 10
      THEN IF blockValue = 7 THEN getNumberBlockColor(cubeIndex + 1)
           ELSE IF blockValue = 9 THEN NineGray(cubeIndex)
           ELSE getNumberBlockColor(blockValue)
    ELSE
      LET thousandsDigit == IF blockValue < 1000 THEN 0 ELSE blockValue \div 1000
          thousandsCount == thousandsDigit * 1000
          hundredsDigit == IF blockValue < 100 THEN 0 ELSE (blockValue % 1000) \div 100
          hundredsCount == hundredsDigit * 100
          tensDigit == IF blockValue < 100 THEN blockValue \div 10
                       ELSE (blockValue % 100) \div 10
          tensCount == tensDigit * 10
          units == blockValue % 10
      IN  IF cubeIndex < thousandsCount
            THEN IF thousandsDigit = 7 THEN Pale(cubeIndex \div 1000 + 1)
                 ELSE Pale(thousandsDigit)
          ELSE IF cubeIndex < thousandsCount + hundredsCount
            THEN IF hundredsDigit = 7
                   THEN getNumberBlockColor((cubeIndex - thousandsCount) \div 100 + 1)
                 ELSE getNumberBlockColor(hundredsDigit)
          ELSE IF cubeIndex < thousandsCount + hundredsCount + tensCount
            THEN IF tensDigit = 7
                   THEN Pale((cubeIndex - thousandsCount - hundredsCount) \div 10 + 1)
                 ELSE Pale(tensDigit)
          ELSE getDigitColor(units,
                             cubeIndex - thousandsCount - hundredsCount - tensCount,
                             FALSE)

\* faulty variant: the units of a two-digit value are outlined as well
getCubeOutlineColorUnits(blockValue, cubeIndex) ==
    IF blockValue < 10 THEN NoOutline
    ELSE getNumberBlockColor(blockValue \div 10)

getCubeOutlineColor(blockValue, cubeIndex) ==
    IF blockValue < 10 THEN NoOutline
    ELSE IF blockValue < 100
      THEN LET tensDigit == blockValue \div 10
               tensCount == tensDigit * 10
           IN  IF cubeIndex < tensCount \/ blockValue = tensCount
                 THEN IF tensDigit = 7 THEN getNumberBlockColor(cubeIndex \div 10 + 1)
                      ELSE getNumberBlockColor(tensDigit)
               ELSE NoOutline
    ELSE
      LET thousandsDigit == IF blockValue < 1000 THEN 0 ELSE blockValue \div 1000
          thousandsCount == thousandsDigit * 1000
          hundredsDigit == (blockValue % 1000) \div 100
          hundredsCount == hundredsDigit * 100
          tensDigit == (blockValue % 100) \div 10
          tensCount == tensDigit * 10
      IN  IF cubeIndex < thousandsCount
            THEN IF thousandsDigit = 7 THEN getNumberBlockColor(cubeIndex \div 1000 + 1)
                 ELSE getNumberBlockColor(thousandsDigit)
          ELSE IF cubeIndex < thousandsCount + hundredsCount
            THEN IF hundredsDigit = 7
                   THEN getNumberBlockColor((cubeIndex - thousandsCount) \div 100 + 1)
                 ELSE getNumberBlockColor(hundredsDigit)
          ELSE IF cubeIndex < thousandsCount + hundredsCount + tensCount
            THEN IF tensDigit = 7
                   THEN getNumberBlockColor(
                          (cubeIndex - thousandsCount - hundredsCount) \div 10 + 1)
                 ELSE getNumberBlockColor(tensDigit)
          ELSE NoOutline

(***************************************************************************)
(* One block is in the store and React renders its cubes: every cube of    *)
(* getCubePositions gets its fill and its outline. The values are all of   *)
(* 1..MaxColorValue and, for every thousands digit, values with the digits *)
(* 0, 7 and 9 in the lower places.                                         *)
(***************************************************************************)
ColorRests == {0, 79, 790, 997}

ColorValues == (1..MaxColorValue) \cup {d * 1000 + r : d \in 1..9, r \in ColorRests}

ColorInit ==
    /\ \E v \in ColorValues :
         /\ blocks = <<NewBlock(1, v, Pos(100, 100))>>
         /\ blocksRef = blocks
    /\ pendingCombination = Null
    /\ zeroBlocks = <<>>
    /\ subtractMenu = Null
    /\ timers = <<>>
    /\ drags = {}
    /\ nextId = 2
    /\ win \in WindowSizes
    /\ stale = 0
    /\ steps = 0
    /\ last = Op("addBlock", 1, [ret |-> TRUE])
    /\ ClockOff

RenderCubes(id) ==
    /\ id \in Ids(blocksRef)
    /\ id \notin DOMAIN components
    /\ components' = [i \in {id} |->
         [value |-> ValueOf(blocksRef, id),
          cubes |-> [index \in 0..(Len(getCubePositions(ValueOf(blocksRef, id))) - 1) |->
                       [color |-> getCubeColor(ValueOf(blocksRef, id), index),
                        outlineColor |->
                          getCubeOutlineColor(ValueOf(blocksRef, id), index)]]]]
    /\ UNCHANGED <<blocks, blocksRef, pendingCombination, zeroBlocks, subtractMenu,
                   timers, drags, nextId, win, stale, steps, last, now, createdAt>>

ColorNext == \E id \in Ids(blocksRef) : RenderCubes(id)

SpecColor == ColorInit /\ [][ColorNext]_vars

\* place-value groups by cube index: the highest place first, the units last
GroupOf(v, i) ==
    IF i < (v \div 1000) * 1000 THEN "thousands"
    ELSE IF i < (v \div 100) * 100 THEN "hundreds"
    ELSE IF i < (v \div 10) * 10 THEN "tens"
    ELSE "units"

\* the digit of v in a place, the cubes of one unit of that place, and the
\* index of the first cube of the group
DigitOf(v, g) ==
    IF g = "thousands" THEN v \div 1000
    ELSE IF g = "hundreds" THEN (v % 1000) \div 100
    ELSE IF g = "tens" THEN (v % 100) \div 10
    ELSE v % 10

UnitSize(g) ==
    IF g = "thousands" THEN 1000 ELSE IF g = "hundreds" THEN 100
    ELSE IF g = "tens" THEN 10 ELSE 1

GroupStart(v, g) ==
    IF g = "thousands" THEN 0
    ELSE IF g = "hundreds" THEN (v \div 1000) * 1000
    ELSE IF g = "tens" THEN (v \div 100) * 100
    ELSE (v \div 10) * 10

Range(f) == {f[k] : k \in DOMAIN f}

\* the primary colours (the grey bands of 9 included) and the pale colours
PrimaryPalette == Range(NUMBERBLOCK_COLORS) \cup Range(NINE_GRAY_COLORS)

PalePalette == Range(PALE_COLORS)

(***************************************************************************)
(* C33 as stated: for every value v in 1..9999 and every cube index        *)
(* i < v, the outline is none when v < 10 or i is in the units group;      *)
(* otherwise it is the primary colour of the digit of the group of i.      *)
(***************************************************************************)
C33_OutlineOwnDigit ==
    \A id \in DOMAIN components :
        LET c == components[id] IN
        \A i \in DOMAIN c.cubes :
            c.cubes[i].outlineColor =
              IF c.value < 10 \/ GroupOf(c.value, i) = "units" THEN NoOutline
              ELSE NUMBERBLOCK_COLORS[DigitOf(c.value, GroupOf(c.value, i))]

(***************************************************************************)
(* C33 amended: as above, except that a group of digit 7 is outlined as a  *)
(* rainbow: the k-th unit of the group (k = 1..7: a ten, a hundred, a      *)
(* thousand) has the primary colour of k.                                  *)
(***************************************************************************)
C33_OutlineOwnDigitOrRainbow ==
    \A id \in DOMAIN components :
        LET c == components[id] IN
        \A i \in DOMAIN c.cubes :
            c.cubes[i].outlineColor =
              IF c.value < 10 \/ GroupOf(c.value, i) = "units" THEN NoOutline
              ELSE IF DigitOf(c.value, GroupOf(c.value, i)) = 7
                THEN NUMBERBLOCK_COLORS[
                       (i - GroupStart(c.value, GroupOf(c.value, i)))
                          \div UnitSize(GroupOf(c.value, i)) + 1]
              ELSE NUMBERBLOCK_COLORS[DigitOf(c.value, GroupOf(c.value, i))]

\* the cubes of 7790 are rendered: the third thousand is outlined yellow,
\* the seventh hundred violet and the tens (digit 9) grey
C33_Witness ==
    \E id \in DOMAIN components :
        /\ components[id].value = 7790
        /\ components[id].cubes[2500].outlineColor = "#FFD700"
        /\ components[id].cubes[7699].outlineColor = "#8B00FF"
        /\ components[id].cubes[7789].outlineColor = "#808080"

C35_BottomToTop ==
    \A id \in DOMAIN components :
        LET c == components[id] IN
        (1 <= c.value /\ c.value < 100) =>
          /\ \A i \in 1..Len(c.cubePositions), j \in 1..Len(c.cubePositions) :
               i < j =>
                 /\ c.cubePositions[i].y >= c.cubePositions[j].y
                 /\ c.cubePositions[i].y = c.cubePositions[j].y
                      => c.cubePositions[i].x < c.cubePositions[j].x
          /\ \A p \in CubeSet(c) : p.y <= c.cubePositions[1].y

\* 34 is rendered in 3 columns and 12 rows: the first cube is at the bottom
\* left, the last cube alone in the top row
C35_Witness ==
    \E id \in DOMAIN components :
        /\ components[id].value = 34
        /\ components[id].cubePositions[1] = [x |-> 0, y |-> 11 * CubeStep]
        /\ components[id].cubePositions[34] = [x |-> 0, y |-> 0]

(***************************************************************************)
(* The delayed split of a sneeze (App.handleSneeze and its setTimeout):     *)
(* one rendered block of value 2..MaxSneezeValue; sneezes are dropped,      *)
(* blocks are picked up and trashed, and the queued callbacks run.  The     *)
(* browser runs every setTimeout callback and React renders after every     *)
(* state change; the user's actions stop while enough steps remain for the  *)
(* callbacks already queued.                                                *)
(***************************************************************************)
SneezeInit ==
    /\ \E n \in 2..MaxSneezeValue :
         /\ blocks = <<NewBlock(1, n, Pos(100, 100))>>
         /\ blocksRef = blocks
    /\ pendingCombination = Null
    /\ zeroBlocks = <<>>
    /\ subtractMenu = Null
    /\ timers = <<>>
    /\ drags = {}
    /\ nextId = 2
    /\ win \in WindowSizes
    /\ stale = 0
    /\ steps = 0
    /\ last = Op("init", 0, NoResult)
    /\ ClockOff

\* n more steps fit beside the callbacks that are queued
Room(n) == steps + Len(timers) + n <= MaxSteps

SneezeCallbacks == SneezeSplitTimer \/ SneezeDupTimer \/ SneezeZeroTimer

SneezeNext ==
    \/ Render
    \/ Room(2) /\ \E p \in DropPoints, t \in SneezeTypes : handleSneeze(p, t)
    \/ Room(1) /\ \E id \in Ids(blocksRef) : handleDragStart(id)
    \/ Room(1) /\ \E id \in drags : handleDragEndTrash(id)
    \/ SneezeCallbacks

SpecSneeze == SneezeInit /\ [][SneezeNext]_vars

FairSneeze ==
    /\ SpecSneeze
    /\ WF_vars(Render)
    /\ WF_vars(SneezeCallbacks)

\* the split callback at the head of the queue runs on a block of the store
SneezeSplitFires(s) ==
    /\ timers # <<>>
    /\ Head(timers).blockId = s
    /\ SneezeSplitTimer
    /\ s \in Ids(blocks)

\* block s has been replaced by exactly two blocks that sum to its value
ReplacedByTwo(s) ==
    /\ Removed = {s}
    /\ Cardinality(Added) = 2
    /\ \E a \in Added, b \in Added :
         /\ a # b
         /\ ValueOf(blocks', a) + ValueOf(blocks', b) = ValueOf(blocks, s)
    /\ last'.ret = TRUE

\* C36: every queued callback of a sneeze runs (the queue empties for good
\* once the sneezes stop), and a split callback that finds its block in the
\* store replaces it by exactly two blocks whose values sum to its value
C36_DelayedSplit ==
    /\ [][ \A s \in SplitTargets : SneezeSplitFires(s) => ReplacedByTwo(s) ]_vars
    /\ <>[](timers = <<>>)

\* a delayed split has run on a block of the store and the queue is empty
C36_Witness ==
    /\ last.op = "sneezeSplit"
    /\ last.ret = TRUE
    /\ last.id \notin Ids(blocks)
    /\ {nextId - 2, nextId - 1} \subseteq Ids(blocks)
    /\ timers = <<>>

(***************************************************************************)
(* Sneeze 1 on its own: one rendered block of any value 2..MaxHalveValue,  *)
(* on which sneeze 1 is dropped again and again                            *)
(***************************************************************************)
TensNext ==
    \/ Render
    \/ \E p \in DropPoints : handleSneeze(p, "sneeze1")
    \/ SneezeSplitTimer
    \/ SneezeDupTimer

SpecTens == HalveInit /\ [][TensNext]_vars

\* the pair the claim describes for a value v >= 2
TensPair(v, a, b) ==
    /\ a >= 1
    /\ b >= 1 /\ b <= 10
    /\ a + b = v
    /\ v <= 10 => (a = v - 1 /\ b = 1)
    /\ v > 10 => (a % 10 = 0 /\ a < v /\ a + 10 >= v)

\* handleSneeze has queued the sneeze 1 split of the block under point p
TensQueued(p) ==
    LET block == blocksRef[findBlockAtPoint(p, blocksRef)]
        split == calculateSneeze1Split(block.value)
    IN  block.value >= 2 =>
          /\ TensPair(block.value, split[1], split[2])
          /\ Len(timers') = Len(timers) + 1
          /\ timers'[Len(timers')].kind = "split"
          /\ timers'[Len(timers')].blockId = block.id
          /\ timers'[Len(timers')].second = split[2]
          /\ SplitAccepted(blocksRef, block.id, split[2])

\* C37: for a block of value v >= 2, calculateSneeze1Split(v) is a pair
\* (a, b) with a >= 1, 1 <= b <= 10 and a + b = v, which is (v - 1, 1) up to
\* 10 and has the largest multiple of 10 strictly below v as a above 10; b is
\* the amount queued for splitBlock and passes its range check, at the sneeze
\* and when the callback runs on a block of the store
C37_Sneeze1Split ==
    [][ /\ \A p \in DropPoints : handleSneeze(p, "sneeze1") => TensQueued(p)
        /\ \A s \in SplitTargets, k \in 1..MaxHalveValue :
             (SneezeSplitStep(s, k) /\ s \in Ids(blocks)) =>
                (k <= 10 /\ last'.ret = TRUE) ]_vars

\* a round value has just lost a whole ten: one result is 10, the other is a
\* multiple of 10
C37_Witness ==
    /\ last.op = "sneezeSplit"
    /\ last.ret = TRUE
    /\ {nextId - 2, nextId - 1} \subseteq Ids(blocks)
    /\ ValueOf(blocks, nextId - 1) = 10
    /\ ValueOf(blocks, nextId - 2) >= 10
    /\ ValueOf(blocks, nextId - 2) % 10 = 0

\* the arrangement splitBlock(id, k) chooses for the block it reads
SplitLayout(id, k) ==
    LET block == blocksRef[FindIndex(blocksRef, id)]
    IN  SplitPositions(win, block.position, block.value - k, k).layout

\* the box of the block with the given id after the step
BoxAfter(id) ==
    LET b == blocks'[FindIndex(blocks', id)]
    IN  getBoxAtPosition(b.value, b.position)

(***************************************************************************)
(* C38: after an accepted splitBlock that chooses the horizontal or the    *)
(* vertical arrangement, the bounding boxes of the two result blocks do    *)
(* not overlap each other, for every source position and canvas size.      *)
(***************************************************************************)
C38_SplitResultsApart ==
    [][ \A id \in StoreIds, k \in PlaceAmounts :
          (CallSplitBlock(id, k) /\ last'.ret /\ SplitLayout(id, k) # "corners")
            => ~boxesOverlap(BoxAfter(nextId), BoxAfter(nextId + 1)) ]_vars

(***************************************************************************)
(* C39: whenever a pending combination is present, its draggingId and      *)
(* targetId are two distinct ids and both name blocks of the store.        *)
(***************************************************************************)
C39_PreviewNamesStoreBlocks ==
    pendingCombination # Null =>
        /\ pendingCombination.draggingId # pendingCombination.targetId
        /\ pendingCombination.draggingId \in Ids(blocks)
        /\ pendingCombination.targetId \in Ids(blocks)

\* indices of the store blocks that a spawn box of value v at p overlaps
SpawnHits(v, p) ==
    {i \in 1..Len(blocks) :
        boxesOverlap(getBoxAtPosition(v, p),
                     getBoxAtPosition(blocks[i].value, blocks[i].position))}

FirstSpawnHit(v, p) == CHOOSE i \in SpawnHits(v, p) : \A j \in SpawnHits(v, p) : i <= j

\* what the claim says a spawn of v at p does to the store
SpawnOutcome(v, p) ==
    /\ SumValues(blocks') = SumValues(blocks) + v
    /\ Cardinality(Added) = 1
    /\ IF SpawnHits(v, p) = {}
         THEN /\ Removed = {}
              /\ \A a \in Added : ValueOf(blocks', a) = v
              /\ OthersUnchanged({})
         ELSE LET hit == blocks[FirstSpawnHit(v, p)] IN
              /\ Removed = {hit.id}
              /\ \A a \in Added : ValueOf(blocks', a) = v + hit.value
              /\ OthersUnchanged({hit.id})

(***************************************************************************)
(* C40: handleSpawn(v, position) grows the store total by exactly v: with  *)
(* no store block under the spawn box it adds one block of value v;        *)
(* otherwise it removes the first overlapping block in store order (value  *)
(* w) and adds one block of value v + w; all other blocks are unchanged,   *)
(* whatever the age of the handler's captured list.                        *)
(***************************************************************************)
C40_SpawnGrowsTotal ==
    [][ \A v \in SpawnValues, p \in SpawnPositions :
          handleSpawn(v, p) => SpawnOutcome(v, p) ]_vars

====
